---------------------------- MODULE Spec2Model ----------------------------
(***************************************************************************)
(* A model of the redis-action teaching scripts:                           *)
(*   src/vote/vote_site.py                 article voting                  *)
(*   src/log/log.py                        recent / common log aggregation  *)
(*   src/fake-web-retailer/login_cookie.py sessions, reaper, row scheduler  *)
(*                                                                         *)
(* Every script is a program of its own that runs against its own Redis    *)
(* database; `program` says which one a behaviour is a run of.  A client   *)
(* is one thread of control talking to the store; every Redis command is   *)
(* atomic, and clients interleave between commands.  Time is counted in    *)
(* ticks, TicksPerSecond of them to the second, so that time.time() may    *)
(* return a fraction of a second.                                          *)
(***************************************************************************)
EXTENDS Integers, FiniteSets, Sequences, TLC

(***************************************************************************)
(* Bounds of the model.                                                    *)
(***************************************************************************)
TicksPerSecond == 2
MaxAdvance == 2
MaxVotes == 3

Clients == {"c1", "c2"}
\* the one client whose calls are followed where a single caller is modelled
RetryClients == {"c1"}
Users == {"u1", "u2", "u3"}
Posters == {"u1"}
Articles == {1, 2}
\* the voting script posts the one article its votes go to
VoteArticles == {1}
\* the scripts that run vote_site.py: voting on an article, and concurrent
\* post_article calls
VotePrograms == {"vote", "post"}

\* A missing key, member or field (None in the scripts).
Nil == -1

\* The keys clients WATCH.
Unwatched == <<>>
VotedKey(a) == <<"voted:", a>>
StartKey == <<"common:start">>

Sec(s) == s * TicksPerSecond

\* int(x) of a non-negative time difference of d ticks, in seconds.
IntSeconds(d) == d \div TicksPerSecond

(***************************************************************************)
(* Program constants.                                                      *)
(***************************************************************************)
ONE_WEEK_IN_SCORES == 7 * 86400
VOTE_SCORE == 432

VARIABLES
    program,    \* which script runs: "vote", "log", "sessions", "rows"
    clock,      \* time.time(), in ticks
    elapsed,    \* how many times the clock has advanced (bounds the run)
    \* ---- the store of vote_site.py
    articleCtr, \* the counter 'article:'
    timeZ,      \* zset 'time:'   article -> publish time
    scoreZ,     \* zset 'score:'  article -> score
    votes,      \* hash 'article:<id>', field 'votes'
    voted,      \* set 'voted:<id>'
    votedTTL,   \* the time at which 'voted:<id>' expires, or Nil
    scoreId,    \* zset 'score:<id>', the score of its member '432'
    watching,   \* client -> the key it WATCHes, or Unwatched
    dirty,      \* client -> a watched key was touched since its WATCH
    vote,       \* client -> the frame of its post_article / article_vote call
    \* ---- history
    modCount,   \* article -> number of writes clients have made to 'voted:<id>'
    watchedAt,  \* client -> modCount of the watched key when it was WATCHed
    hasVoted,   \* article -> the poster and every user whose vote was committed
    outcome,    \* client -> how its last article_vote call ended
    repeated,   \* a user called article_vote on an article that they had posted
                \* or voted on, or while another call of theirs on it was running
    \* ---- the store of log.py, for one name and severity
    logStart,   \* string '<destination>:start': the hour of the current bucket
    logCounts,  \* zset '<destination>': message -> count (0: no member)
    logPstart,  \* string '<destination>:pstart'
    logLast,    \* zset '<destination>:last'
    recent,     \* list 'recent:<name>:<severity>', newest first
    log,        \* client -> the frame of its log_common call
    \* ---- history
    logCalls,   \* log_common calls made so far (bounds the run)
    logMod,     \* number of writes clients have made to '<destination>:start'
    hourLog,    \* hour -> message -> commits by calls that computed that hour
    incSince,   \* message -> commits since the last rollover
    rollCount,  \* hour -> rollovers into that hour
    logOutcome, \* client -> how its last log_common call ended
    \* ---- the store and globals of login_cookie.py: sessions
    QUIT,       \* the global stop flag
    LIMIT,      \* the global session limit
    login,      \* hash 'login:'   token -> user
    recentZ,    \* zset 'recent:'  token -> time of its last update
    viewedTok,  \* zset 'viewed:<token>'  item -> time of its last view
    viewedAll,  \* zset 'viewed:'  item -> its views (its score is minus that), or Nil
    cart,       \* hash 'cart:<session>'  item -> count
    upd,        \* client -> the frame of its update_token call
    reaper,     \* the frame of the clean_sessions / clean_full_session thread
    full,       \* the thread runs clean_full_session
    \* ---- history
    updCalls,   \* update_token and add_to_cart calls made so far
    evicted,    \* tokens the reaper removed from 'recent:' and no call has touched since
    cartRace,   \* an add_to_cart call ran on a token the reaper was removing
    \* ---- the store of login_cookie.py: the row cache
    delayZ,     \* zset 'delay:'     row -> seconds between two refreshes
    scheduleZ,  \* zset 'schedule:'  row -> time at which it is due
    inventory,  \* string 'inventory:<row>': the time its copy was cached
    rowCall,    \* client -> the frame of its schedule_row_cache call
    cacher,     \* the frame of the cache_rows thread
    \* ---- history
    rowCalls,      \* schedule_row_cache calls made so far
    retirePending, \* rows whose last call had delay <= 0 and has returned
    cycleFresh,    \* the running cycle began after that call returned
    handled,       \* retirePending rows that a later cycle found due and finished with
    refreshDue,    \* row -> now + delay of its last refresh, Nil after a call for it
    \* ---- the store of login_cookie.py: the page cache
    pageStore,  \* string 'cache:<hash>': the page and the time at which it expires
    hashOf,     \* request -> str(hash(request)) in this process
    req,        \* client -> the frame of its cache_request call
    \* ---- history
    reqCalls    \* cache_request calls made so far

voteStore == <<articleCtr, timeZ, scoreZ, votes, voted, votedTTL, scoreId>>
voteHistory == <<modCount, hasVoted, outcome, repeated>>
voteVars == <<voteStore, vote, voteHistory>>
logStore == <<logStart, logCounts, logPstart, logLast, recent>>
logHistory == <<logCalls, logMod, hourLog, incSince, rollCount, logOutcome>>
logVars == <<logStore, log, logHistory>>
sessStore == <<login, recentZ, viewedTok, viewedAll, cart>>
sessOnly == <<LIMIT, sessStore, upd, reaper, full, updCalls, evicted, cartRace>>
sessVars == <<QUIT, sessOnly>>
rowStore == <<delayZ, scheduleZ, inventory>>
rowVars == <<rowStore, rowCall, cacher, rowCalls, retirePending, cycleFresh, handled,
            refreshDue>>
cacheVars == <<pageStore, hashOf, req, reqCalls>>
vars == <<program, clock, elapsed, watching, dirty, watchedAt, voteVars, logVars,
          sessVars, rowVars, cacheVars>>

(***************************************************************************)
(* vote_site.py                                                            *)
(***************************************************************************)
IdleFrame == [pc |-> "idle", user |-> "u1", article |-> Nil, posted |-> Nil,
              expired |-> Nil, now |-> Nil]

InitWatch ==
    /\ watching = [c \in Clients |-> Unwatched]
    /\ dirty = [c \in Clients |-> FALSE]
    /\ watchedAt = [c \in Clients |-> 0]

InitVoteStore ==
    /\ articleCtr = 0
    /\ timeZ = [a \in Articles |-> Nil]
    /\ scoreZ = [a \in Articles |-> Nil]
    /\ votes = [a \in Articles |-> Nil]
    /\ voted = [a \in Articles |-> {}]
    /\ votedTTL = [a \in Articles |-> Nil]
    /\ scoreId = [a \in Articles |-> 0]
    /\ vote = [c \in Clients |-> IdleFrame]
    /\ modCount = [a \in Articles |-> 0]
    /\ hasVoted = [a \in Articles |-> {}]
    /\ outcome = [c \in Clients |-> "none"]
    /\ repeated = FALSE

\* A write to key k flags every client that WATCHes it.
Touch(k) == [c \in Clients |-> dirty[c] \/ watching[c] = k]

\* EXEC refuses the transaction (redis-py raises WatchError) when a key the
\* client WATCHes was touched since its WATCH.
ExecNeverAborts(c) == FALSE
ExecAborts(c) == dirty[c]

\* EXPIRE key ttl: a ttl of zero or less deletes the key at once.
ExpireAt(ttl) == IF ttl <= 0 THEN Nil ELSE clock + Sec(ttl)

\* ---- post_article
\* INCR 'article:' (line 75): one atomic command
IncrStuck(n) == n
Incr(n) == n + 1

PostIncr(c, u) ==
    /\ program \in VotePrograms
    /\ vote[c].pc = "idle"
    /\ articleCtr + 1 \in (IF program = "vote" THEN VoteArticles ELSE Articles)
    /\ articleCtr' = Incr(articleCtr)
    /\ vote' = [vote EXCEPT ![c] = [IdleFrame EXCEPT !.pc = "p_sadd", !.user = u,
                                       !.article = Incr(articleCtr)]]
    /\ UNCHANGED <<timeZ, scoreZ, votes, voted, votedTTL, scoreId, watching,
                   dirty, watchedAt, voteHistory>>

PostSadd(c) ==
    /\ program \in VotePrograms
    /\ vote[c].pc = "p_sadd"
    /\ LET a == vote[c].article IN
        /\ voted' = [voted EXCEPT ![a] = @ \cup {vote[c].user}]
        /\ dirty' = Touch(VotedKey(a))
        /\ modCount' = [modCount EXCEPT ![a] = @ + 1]
        /\ hasVoted' = [hasVoted EXCEPT ![a] = @ \cup {vote[c].user}]
    /\ vote' = [vote EXCEPT ![c].pc = "p_expire"]
    /\ UNCHANGED <<articleCtr, timeZ, scoreZ, votes, votedTTL, scoreId, watching,
                   watchedAt, outcome, repeated>>

PostExpire(c) ==
    /\ program \in VotePrograms
    /\ vote[c].pc = "p_expire"
    /\ LET a == vote[c].article IN
        /\ votedTTL' = [votedTTL EXCEPT ![a] = ExpireAt(ONE_WEEK_IN_SCORES)]
        /\ dirty' = Touch(VotedKey(a))
        /\ modCount' = [modCount EXCEPT ![a] = @ + 1]
    /\ vote' = [vote EXCEPT ![c].pc = "p_time"]
    /\ UNCHANGED <<articleCtr, timeZ, scoreZ, votes, voted, scoreId, watching,
                   watchedAt, hasVoted, outcome, repeated>>

PostTime(c) ==
    /\ program \in VotePrograms
    /\ vote[c].pc = "p_time"
    /\ vote' = [vote EXCEPT ![c].pc = "p_hmset", ![c].now = clock]
    /\ UNCHANGED <<voteStore, watching, dirty, watchedAt, voteHistory>>

PostHmset(c) ==
    /\ program \in VotePrograms
    /\ vote[c].pc = "p_hmset"
    /\ votes' = [votes EXCEPT ![vote[c].article] = 1]
    /\ vote' = [vote EXCEPT ![c].pc = "p_score"]
    /\ UNCHANGED <<articleCtr, timeZ, scoreZ, voted, votedTTL, scoreId, watching,
                   dirty, watchedAt, voteHistory>>

PostZaddScore(c) ==
    /\ program \in VotePrograms
    /\ vote[c].pc = "p_score"
    /\ scoreZ' = [scoreZ EXCEPT ![vote[c].article] = vote[c].now + Sec(VOTE_SCORE)]
    /\ vote' = [vote EXCEPT ![c].pc = "p_zaddtime"]
    /\ UNCHANGED <<articleCtr, timeZ, votes, voted, votedTTL, scoreId, watching,
                   dirty, watchedAt, voteHistory>>

PostZaddTime(c) ==
    /\ program \in VotePrograms
    /\ vote[c].pc = "p_zaddtime"
    /\ timeZ' = [timeZ EXCEPT ![vote[c].article] = vote[c].now]
    /\ vote' = [vote EXCEPT ![c] = IdleFrame]
    /\ UNCHANGED <<articleCtr, scoreZ, votes, voted, votedTTL, scoreId, watching,
                   dirty, watchedAt, voteHistory>>

\* ---- article_vote
\* `while now < expired`: enter the loop body, or fall out of the function.
VoteLoopAlways(f) == [f EXCEPT !.pc = "v_watch"]
VoteLoop(f) == IF f.now < f.expired THEN [f EXCEPT !.pc = "v_watch"] ELSE IdleFrame

\* lines 24-39: read the publish time, the deadline and the clock.  The
\* article has been posted: for one that is not in 'time:', line 26 raises
\* and nothing is written.
VoteEnter(c, u, a) ==
    /\ program = "vote"
    /\ vote[c].pc = "idle"
    /\ timeZ[a] # Nil
    /\ votes[a] < MaxVotes
    /\ vote' = [vote EXCEPT ![c] =
            VoteLoop([IdleFrame EXCEPT !.user = u, !.article = a,
                                       !.posted = timeZ[a],
                                       !.expired = timeZ[a] + Sec(ONE_WEEK_IN_SCORES),
                                       !.now = clock])]
    /\ outcome' = [outcome EXCEPT ![c] = IF vote'[c].pc = "idle" THEN "closed" ELSE @]
    /\ repeated' = (\/ repeated
                    \/ u \in hasVoted[a]
                    \/ \E d \in Clients \ {c} :
                          vote[d].pc # "idle" /\ vote[d].user = u /\ vote[d].article = a)
    /\ UNCHANGED <<voteStore, watching, dirty, modCount, watchedAt, hasVoted>>

\* line 44
VoteWatch(c) ==
    /\ program = "vote"
    /\ vote[c].pc = "v_watch"
    /\ watching' = [watching EXCEPT ![c] = VotedKey(vote[c].article)]
    /\ dirty' = [dirty EXCEPT ![c] = FALSE]
    /\ watchedAt' = [watchedAt EXCEPT ![c] = modCount[vote[c].article]]
    /\ vote' = [vote EXCEPT ![c].pc = "v_ismember"]
    /\ UNCHANGED <<voteStore, modCount, hasVoted, outcome, repeated>>

\* lines 45, 53-56: the user has voted: UNWATCH and return.
VoteSismember(c) ==
    /\ program = "vote"
    /\ vote[c].pc = "v_ismember"
    /\ IF vote[c].user \in voted[vote[c].article]
       THEN /\ vote' = [vote EXCEPT ![c] = IdleFrame]
            /\ watching' = [watching EXCEPT ![c] = Unwatched]
            /\ dirty' = [dirty EXCEPT ![c] = FALSE]
            /\ outcome' = [outcome EXCEPT ![c] = "already"]
       ELSE /\ vote' = [vote EXCEPT ![c].pc = "v_exec"]
            /\ UNCHANGED <<watching, dirty, outcome>>
    /\ UNCHANGED <<voteStore, modCount, watchedAt, hasVoted, repeated>>

\* The TTL article_vote hands to EXPIRE (line 49).
VoteTTL(f) == IntSeconds(f.expired - f.now)

\* The member and amount ZINCRBY gets at line 50: `zincrby(name, value,
\* amount=1)` is called with the key 'score:<id>' and the value 432, so the
\* member '432' of 'score:<id>' goes up by 1 and 'score:' is not written.
VoteZincrby(a) ==
    /\ scoreId' = [scoreId EXCEPT ![a] = @ + 1]
    /\ scoreZ' = scoreZ

\* lines 47-52: MULTI ... EXEC with the key unchanged since WATCH.
VoteCommit(c) ==
    /\ program = "vote"
    /\ vote[c].pc = "v_exec"
    /\ ~ExecAborts(c)
    /\ LET a == vote[c].article
           ttl == VoteTTL(vote[c]) IN
        /\ voted' = [voted EXCEPT ![a] = IF ttl <= 0 THEN {} ELSE @ \cup {vote[c].user}]
        /\ votedTTL' = [votedTTL EXCEPT ![a] = ExpireAt(ttl)]
        /\ VoteZincrby(a)
        /\ votes' = [votes EXCEPT ![a] = IF @ = Nil THEN 1 ELSE @ + 1]
        /\ dirty' = [Touch(VotedKey(a)) EXCEPT ![c] = FALSE]
        /\ modCount' = [modCount EXCEPT ![a] = @ + 2]
        /\ hasVoted' = [hasVoted EXCEPT ![a] = @ \cup {vote[c].user}]
    /\ watching' = [watching EXCEPT ![c] = Unwatched]
    /\ vote' = [vote EXCEPT ![c] = IdleFrame]
    /\ outcome' = [outcome EXCEPT ![c] = "applied"]
    /\ UNCHANGED <<articleCtr, timeZ, watchedAt, repeated>>

\* lines 52, 57-59: EXEC fails with WatchError; read the clock and loop.
VoteConflict(c) ==
    /\ program = "vote"
    /\ vote[c].pc = "v_exec"
    /\ ExecAborts(c)
    /\ watching' = [watching EXCEPT ![c] = Unwatched]
    /\ dirty' = [dirty EXCEPT ![c] = FALSE]
    /\ vote' = [vote EXCEPT ![c] = VoteLoop([vote[c] EXCEPT !.now = clock])]
    /\ outcome' = [outcome EXCEPT ![c] = IF vote'[c].pc = "idle" THEN "gave up" ELSE "retrying"]
    /\ UNCHANGED <<voteStore, modCount, watchedAt, hasVoted, repeated>>

\* ---- the clock of the vote program.  The store drops a key whose expiry
\* time has come.  That is not a client's write; whether it flags the key's
\* watchers depends on the server (it does from Redis 6.0.9 on), so `flag`
\* is either.
VoteDelays == {1, Sec(ONE_WEEK_IN_SCORES) - 1}

\* The run ends a second after the voting window of an article posted at 0.
VoteHorizon == Sec(ONE_WEEK_IN_SCORES) + Sec(1)

VoteAdvance(d, flag) ==
    /\ program \in VotePrograms
    /\ elapsed < MaxAdvance
    /\ clock + d <= VoteHorizon
    /\ clock' = clock + d
    /\ elapsed' = elapsed + 1
    /\ LET gone(a) == votedTTL[a] # Nil /\ votedTTL[a] <= clock + d IN
        /\ voted' = [a \in Articles |-> IF gone(a) THEN {} ELSE voted[a]]
        /\ votedTTL' = [a \in Articles |-> IF gone(a) THEN Nil ELSE votedTTL[a]]
        /\ dirty' = [c \in Clients |->
                dirty[c] \/ (flag /\ \E a \in Articles : gone(a) /\ watching[c] = VotedKey(a))]
    /\ UNCHANGED <<program, articleCtr, timeZ, scoreZ, votes, scoreId, watching,
                   vote, watchedAt, voteHistory>>

\* a step of client c in post_article or article_vote
VoteStepOf(c) ==
    \/ \E u \in Posters : PostIncr(c, u)
    \/ PostSadd(c)
    \/ PostExpire(c)
    \/ PostTime(c)
    \/ PostHmset(c)
    \/ PostZaddScore(c)
    \/ PostZaddTime(c)
    \/ \E u \in Users, a \in Articles : VoteEnter(c, u, a)
    \/ VoteWatch(c)
    \/ VoteSismember(c)
    \/ VoteCommit(c)
    \/ VoteConflict(c)

VoteStep == \E c \in Clients : VoteStepOf(c)

NextVote ==
    \/ VoteStep /\ UNCHANGED <<program, clock, elapsed, logVars, sessVars, rowVars, cacheVars>>
    \/ /\ \E d \in VoteDelays, flag \in BOOLEAN : VoteAdvance(d, flag)
       /\ UNCHANGED <<logVars, sessVars, rowVars, cacheVars>>

(***************************************************************************)
(* log.py                                                                  *)
(***************************************************************************)
Messages == {"m1", "m2"}
MaxLogCalls == 3

\* log_common's default timeout, in seconds (line 54).
LOG_TIMEOUT == 5
\* log_recent keeps the newest RECENT_KEEP entries: LTRIM 0 99 (line 48).
RECENT_KEEP == 100

SecondsPerHour == 3600

\* datetime(*now[:4]).isoformat(): the clock cut to the hour.  ISO strings of
\* one width compare as their hours do.
HourOf(t) == t \div Sec(SecondsPerHour)
\* time.asctime(): the clock cut to the second.
Asctime(t) == t \div TicksPerSecond

LogHorizon == 2 * Sec(SecondsPerHour)
Hours == 0..HourOf(LogHorizon)

NoCounts == [m \in Messages |-> 0]

LogIdle == [pc |-> "idle", message |-> "m1", end |-> Nil, hour_start |-> Nil,
            existing |-> Nil, stamp |-> Nil]

\* the scripts that run log.py: log_common calls, and log_recent calls on a
\* list that has a history
LogPrograms == {"log", "recent"}

\* everything of log.py's store and calls but the recent list
InitLogRest ==
    /\ logStart = Nil
    /\ logCounts = NoCounts
    /\ logPstart = Nil
    /\ logLast = NoCounts
    /\ log = [c \in Clients |-> LogIdle]
    /\ logCalls = 0
    /\ logMod = 0
    /\ hourLog = [h \in Hours |-> NoCounts]
    /\ incSince = NoCounts
    /\ rollCount = [h \in Hours |-> 0]
    /\ logOutcome = [c \in Clients |-> "none"]

InitLogStore ==
    /\ InitLogRest
    /\ recent = <<>>

\* LPUSH then LTRIM 0 RECENT_KEEP-1 (log_recent, lines 46-48).
PushRecentUntrimmed(list, entry) == <<entry>> \o list
PushRecent(list, entry) == SubSeq(<<entry>> \o list, 1,
                                  IF Len(list) + 1 < RECENT_KEEP THEN Len(list) + 1
                                  ELSE RECENT_KEEP)

\* line 62
LogEnter(c, m, timeout) ==
    /\ program \in LogPrograms
    /\ log[c].pc = "idle"
    /\ logCalls < MaxLogCalls
    /\ logCalls' = logCalls + 1
    /\ log' = [log EXCEPT ![c] = [LogIdle EXCEPT !.pc = "l_loop", !.message = m,
                                                   !.end = clock + Sec(timeout)]]
    /\ UNCHANGED <<logStore, logMod, hourLog, incSince, rollCount, logOutcome,
                   watching, dirty, watchedAt>>

\* line 66: `while time.time() < end`
LogLoop(c) ==
    /\ program \in LogPrograms
    /\ log[c].pc = "l_loop"
    /\ IF clock < log[c].end
       THEN /\ log' = [log EXCEPT ![c].pc = "l_watch"]
            /\ UNCHANGED logOutcome
       ELSE /\ log' = [log EXCEPT ![c] = LogIdle]
            /\ logOutcome' = [logOutcome EXCEPT ![c] =
                    IF @ = "retrying" THEN "gave up" ELSE "expired"]
    /\ UNCHANGED <<logStore, logCalls, logMod, hourLog, incSince, rollCount,
                   watching, dirty, watchedAt>>

\* line 71
LogWatch(c) ==
    /\ program \in LogPrograms
    /\ log[c].pc = "l_watch"
    /\ watching' = [watching EXCEPT ![c] = StartKey]
    /\ dirty' = [dirty EXCEPT ![c] = FALSE]
    /\ watchedAt' = [watchedAt EXCEPT ![c] = logMod]
    /\ log' = [log EXCEPT ![c].pc = "l_hour"]
    /\ UNCHANGED <<logStore, logHistory>>

\* lines 74-75
LogHour(c) ==
    /\ program \in LogPrograms
    /\ log[c].pc = "l_hour"
    /\ log' = [log EXCEPT ![c].pc = "l_get", ![c].hour_start = HourOf(clock)]
    /\ UNCHANGED <<logStore, logHistory, watching, dirty, watchedAt>>

\* line 78
LogGet(c) ==
    /\ program \in LogPrograms
    /\ log[c].pc = "l_get"
    /\ log' = [log EXCEPT ![c].pc = "l_exec", ![c].existing = logStart]
    /\ UNCHANGED <<logStore, logHistory, watching, dirty, watchedAt>>

\* `elif existing < hour_start` (line 85)
RollsOverOrEqual(f) == f.existing # Nil /\ f.existing <= f.hour_start
RollsOverNever(f) == FALSE
RollsOver(f) == f.existing # Nil /\ f.existing < f.hour_start

\* ZINCRBY destination 1 message (line 96)
LogZadd(counts, m) == [counts EXCEPT ![m] = 1]
LogZincrby(counts, m) == [counts EXCEPT ![m] = @ + 1]

\* lines 81-101 and log_recent's lines 46-49: the queued commands, run by
\* EXEC with '<destination>:start' unchanged since WATCH.  RENAME of a key
\* that does not exist fails; the commands after it still run.
LogCommit(c) ==
    /\ program \in LogPrograms
    /\ log[c].pc = "l_exec"
    /\ ~ExecAborts(c)
    /\ LET f == log[c]
           roll == RollsOver(f)
           hasCounts == logCounts # NoCounts
           hasStart == logStart # Nil
           writesStart == f.existing = Nil \/ roll
       IN  /\ logLast' = IF roll /\ hasCounts THEN logCounts ELSE logLast
           /\ logPstart' = IF roll /\ hasStart THEN logStart ELSE logPstart
           /\ logStart' = IF writesStart THEN f.hour_start ELSE logStart
           /\ logCounts' = LogZincrby(IF roll THEN NoCounts ELSE logCounts, f.message)
           /\ recent' = PushRecent(recent, <<Asctime(clock), f.message>>)
           /\ dirty' = IF writesStart THEN [Touch(StartKey) EXCEPT ![c] = FALSE]
                                     ELSE [dirty EXCEPT ![c] = FALSE]
           /\ logMod' = logMod + (IF roll THEN 2 ELSE IF writesStart THEN 1 ELSE 0)
           /\ hourLog' = [hourLog EXCEPT ![f.hour_start][f.message] = @ + 1]
           /\ incSince' = [m \in Messages |->
                   (IF roll THEN 0 ELSE incSince[m]) + (IF m = f.message THEN 1 ELSE 0)]
           /\ rollCount' = IF roll THEN [rollCount EXCEPT ![f.hour_start] = @ + 1]
                                   ELSE rollCount
           /\ logOutcome' = [logOutcome EXCEPT ![c] =
                   IF roll /\ ~(hasCounts /\ hasStart) THEN "raised" ELSE "applied"]
    /\ watching' = [watching EXCEPT ![c] = Unwatched]
    /\ log' = [log EXCEPT ![c] = LogIdle]
    /\ UNCHANGED <<logCalls, watchedAt>>

\* EXEC of a transaction whose watched key was modified runs none of the
\* queued commands (the WatchError of line 103).
RunsQueuedIncrement(counts, m) == [counts EXCEPT ![m] = @ + 1]
DiscardsQueued(counts, m) == counts

\* lines 103-104: EXEC fails with WatchError; `continue`.
LogConflict(c) ==
    /\ program \in LogPrograms
    /\ log[c].pc = "l_exec"
    /\ ExecAborts(c)
    /\ watching' = [watching EXCEPT ![c] = Unwatched]
    /\ dirty' = [dirty EXCEPT ![c] = FALSE]
    /\ log' = [log EXCEPT ![c].pc = "l_loop"]
    /\ logOutcome' = [logOutcome EXCEPT ![c] = "retrying"]
    /\ logCounts' = DiscardsQueued(logCounts, log[c].message)
    /\ UNCHANGED <<logStart, logPstart, logLast, recent>>
    /\ UNCHANGED <<logCalls, logMod, hourLog, incSince, rollCount, watchedAt>>

\* ---- log_recent called on its own
\* lines 37-44: the entry is stamped with time.asctime(), then the pipeline
\* is made
RecentEnter(c, m) ==
    /\ program = "recent"
    /\ log[c].pc = "idle"
    /\ logCalls < MaxLogCalls
    /\ logCalls' = logCalls + 1
    /\ log' = [log EXCEPT ![c] = [LogIdle EXCEPT !.pc = "n_exec", !.message = m,
                                                   !.stamp = Asctime(clock)]]
    /\ UNCHANGED <<logStore, logMod, hourLog, incSince, rollCount, logOutcome,
                   watching, dirty, watchedAt>>

\* lines 46-49: LPUSH and LTRIM in one MULTI ... EXEC
RecentExec(c) ==
    /\ program = "recent"
    /\ log[c].pc = "n_exec"
    /\ recent' = PushRecent(recent, <<log[c].stamp, log[c].message>>)
    /\ log' = [log EXCEPT ![c] = LogIdle]
    /\ UNCHANGED <<logStart, logCounts, logPstart, logLast, logHistory,
                   watching, dirty, watchedAt>>

LogDelays == {1, Sec(SecondsPerHour)}

LogAdvance(d) ==
    /\ program \in LogPrograms
    /\ elapsed < MaxAdvance
    /\ clock + d <= LogHorizon
    /\ clock' = clock + d
    /\ elapsed' = elapsed + 1
    /\ UNCHANGED <<program, watching, dirty, watchedAt, logVars>>

\* a step of client c in log_common
LogStepOf(c) ==
    \/ \E m \in Messages : LogEnter(c, m, LOG_TIMEOUT)
    \/ LogLoop(c)
    \/ LogWatch(c)
    \/ LogHour(c)
    \/ LogGet(c)
    \/ LogCommit(c)
    \/ LogConflict(c)

LogStep == \E c \in Clients : LogStepOf(c)

NextLog ==
    \/ LogStep /\ UNCHANGED <<program, clock, elapsed, voteVars, sessVars, rowVars, cacheVars>>
    \/ (\E d \in LogDelays : LogAdvance(d)) /\ UNCHANGED <<voteVars, sessVars, rowVars, cacheVars>>

(***************************************************************************)
(* login_cookie.py: session tokens, carts and the session reaper           *)
(***************************************************************************)
\* the web clients that call update_token and add_to_cart
Shoppers == {"c1"}
\* Tokens and items are numbered in the lexicographic order of their names,
\* which is how a sorted set orders members of equal score.
Tokens == {1, 2}
\* user ids
Accounts == {7}
Items == {1, 2}
\* the item the session tests and the page cache test view and buy
SessItems == {1}
\* `item` is optional: None skips lines 42-47.
NoItem == 0
Limits == {0, 1}
Counts == {0, 1}
MaxUpdCalls == 3

\* update_token keeps the newest VIEWED_KEEP items: ZREMRANGEBYRANK 0 -26.
VIEWED_KEEP == 25
\* the reaper removes at most BATCH tokens in a cycle (line 74).
BATCH == 100
ReaperSleep == 1

Min(a, b) == IF a <= b THEN a ELSE b

\* The members of a sorted set: z maps each candidate to its score or Nil.
Members(z) == {x \in DOMAIN z : z[x] # Nil}
\* x's rank in z: the members before it by score, then by name.
Rank(z, x) == Cardinality({y \in Members(z) :
                  z[y] < z[x] \/ (z[y] = z[x] /\ y < x)})
\* ZRANGE z -n -1: the last n members.
ZRangeLast(z, n) == {x \in Members(z) : Rank(z, x) >= Cardinality(Members(z)) - n}
\* ZRANGE z 0 n-1: the first n members.
ZRangeFirst(z, n) == {x \in Members(z) : Rank(z, x) < n}
\* ZREMRANGEBYRANK z 0 -(keep+1): drops all but the last `keep` members.
ZKeepLast(z, keep) ==
    [x \in DOMAIN z |-> IF x \in Members(z) /\ Rank(z, x) < Cardinality(Members(z)) - keep
                         THEN Nil ELSE z[x]]

NoViews == [i \in Items |-> Nil]
NoCart == [i \in Items |-> Nil]

UpdIdle == [pc |-> "idle", token |-> Nil, user |-> Nil, item |-> NoItem,
            timestamp |-> Nil]
ReaperTop == [pc |-> "r_top", size |-> 0, tokens |-> {}, wake |-> 0]

InitSessStore ==
    /\ QUIT = FALSE
    /\ LIMIT = 0
    /\ login = [t \in Tokens |-> Nil]
    /\ recentZ = [t \in Tokens |-> Nil]
    /\ viewedTok = [t \in Tokens |-> NoViews]
    /\ viewedAll = [i \in Items |-> Nil]
    /\ cart = [t \in Tokens |-> NoCart]
    /\ upd = [c \in Shoppers |-> UpdIdle]
    /\ reaper = ReaperTop
    /\ full = FALSE
    /\ updCalls = 0
    /\ evicted = {}
    /\ cartRace = FALSE

\* the scripts that call update_token: the session tests and the page cache
ShopPrograms == {"sessions", "cache", "reap"}

\* ---- update_token
\* line 35
UpdTime(c, t, u, i) ==
    /\ program \in ShopPrograms
    /\ upd[c].pc = "idle"
    /\ updCalls < MaxUpdCalls
    /\ updCalls' = updCalls + 1
    /\ upd' = [upd EXCEPT ![c] = [pc |-> "u_hset", token |-> t, user |-> u, item |-> i,
                                  timestamp |-> clock]]
    /\ evicted' = evicted \ {t}
    /\ UNCHANGED <<QUIT, LIMIT, sessStore, reaper, full, cartRace>>

\* line 37
UpdHset(c) ==
    /\ program \in ShopPrograms
    /\ upd[c].pc = "u_hset"
    /\ login' = [login EXCEPT ![upd[c].token] = upd[c].user]
    /\ upd' = [upd EXCEPT ![c].pc = "u_zadd"]
    /\ evicted' = evicted \ {upd[c].token}
    /\ UNCHANGED <<QUIT, LIMIT, recentZ, viewedTok, viewedAll, cart, reaper, full,
                   updCalls, cartRace>>

\* lines 39-41
UpdZadd(c) ==
    /\ program \in ShopPrograms
    /\ upd[c].pc = "u_zadd"
    /\ recentZ' = [recentZ EXCEPT ![upd[c].token] = upd[c].timestamp]
    /\ upd' = [upd EXCEPT ![c] = IF upd[c].item # NoItem
                                  THEN [upd[c] EXCEPT !.pc = "u_viewed"] ELSE UpdIdle]
    /\ evicted' = evicted \ {upd[c].token}
    /\ UNCHANGED <<QUIT, LIMIT, login, viewedTok, viewedAll, cart, reaper, full,
                   updCalls, cartRace>>

\* line 42
UpdViewed(c) ==
    /\ program \in ShopPrograms
    /\ upd[c].pc = "u_viewed"
    /\ viewedTok' = [viewedTok EXCEPT ![upd[c].token][upd[c].item] = upd[c].timestamp]
    /\ upd' = [upd EXCEPT ![c].pc = "u_trim"]
    /\ evicted' = evicted \ {upd[c].token}
    /\ UNCHANGED <<QUIT, LIMIT, login, recentZ, viewedAll, cart, reaper, full,
                   updCalls, cartRace>>

\* line 43
UpdTrim(c) ==
    /\ program \in ShopPrograms
    /\ upd[c].pc = "u_trim"
    /\ viewedTok' = [viewedTok EXCEPT ![upd[c].token] = ZKeepLast(@, VIEWED_KEEP)]
    /\ upd' = [upd EXCEPT ![c].pc = "u_zincrby"]
    /\ evicted' = evicted \ {upd[c].token}
    /\ UNCHANGED <<QUIT, LIMIT, login, recentZ, viewedAll, cart, reaper, full,
                   updCalls, cartRace>>

\* line 47
UpdZincrby(c) ==
    /\ program \in ShopPrograms
    /\ upd[c].pc = "u_zincrby"
    /\ viewedAll' = [viewedAll EXCEPT ![upd[c].item] = IF @ = Nil THEN 1 ELSE @ + 1]
    /\ upd' = [upd EXCEPT ![c] = UpdIdle]
    /\ UNCHANGED <<QUIT, LIMIT, login, recentZ, viewedTok, cart, reaper, full,
                   updCalls, evicted, cartRace>>

\* ---- add_to_cart (lines 103-108): HDEL or HSET, one command
\* what the call leaves under the item: `if count <= 0` HDEL, else HSET count
CartValueZeroKept(count) == IF count < 0 THEN Nil ELSE count
CartValue(count) == IF count <= 0 THEN Nil ELSE count

AddToCart(c, t, i, count) ==
    /\ program \in {"sessions", "cart"}
    /\ upd[c].pc = "idle"
    /\ updCalls < MaxUpdCalls
    /\ updCalls' = updCalls + 1
    /\ cart' = [cart EXCEPT ![t][i] = CartValue(count)]
    /\ evicted' = evicted \ {t}
    /\ cartRace' = (cartRace \/ t \in reaper.tokens)
    /\ UNCHANGED <<QUIT, LIMIT, login, recentZ, viewedTok, viewedAll, upd, reaper,
                   full>>

\* ---- clean_sessions (lines 64-87) and clean_full_session (lines 118-134)
\* `while not QUIT`
WhileTrue(quit, body) == body
WhileNotQuit(quit, body) == IF quit THEN "stopped" ELSE body

\* the scripts that run clean_sessions in a thread
ReaperPrograms == {"sessions", "reap", "crash"}

ReaperCheckQuit ==
    /\ program \in ReaperPrograms
    /\ reaper.pc = "r_top"
    /\ reaper' = [reaper EXCEPT !.pc = WhileNotQuit(QUIT, "r_zcard")]
    /\ UNCHANGED <<QUIT, LIMIT, sessStore, upd, full, updCalls, evicted, cartRace>>

\* size = zcard('recent:'); `if size <= LIMIT: time.sleep(1)`
ReaperZcard ==
    /\ program \in ReaperPrograms
    /\ reaper.pc = "r_zcard"
    /\ LET size == Cardinality(Members(recentZ)) IN
        reaper' = [reaper EXCEPT !.size = size,
                                 !.pc = IF size <= LIMIT THEN "r_sleep" ELSE "r_zrange",
                                 !.wake = IF size <= LIMIT THEN clock + Sec(ReaperSleep)
                                          ELSE 0]
    /\ UNCHANGED <<QUIT, LIMIT, sessStore, upd, full, updCalls, evicted, cartRace>>

\* the sleep is over: `continue`
ReaperWake ==
    /\ program \in ReaperPrograms
    /\ reaper.pc = "r_sleep"
    /\ clock >= reaper.wake
    /\ reaper' = [reaper EXCEPT !.pc = "r_top", !.wake = 0]
    /\ UNCHANGED <<QUIT, LIMIT, sessStore, upd, full, updCalls, evicted, cartRace>>

\* end_index = min(size - LIMIT, 100); zrange('recent:', 0, end_index - 1)
EndIndexUncapped(size) == size - LIMIT
EndIndex(size) == Min(size - LIMIT, BATCH)

\* the order of the statements that follow the size check: zrange (line 75),
\* delete (line 83), hdel (line 85), zrem (line 87), then the loop's next turn
ReaperAfterZremFirst(pc) ==
    CASE pc = "r_zrange" -> "r_zrem"
      [] pc = "r_zrem" -> "r_delete"
      [] pc = "r_delete" -> "r_hdel"
      [] pc = "r_hdel" -> "r_top"
ReaperAfter(pc) ==
    CASE pc = "r_zrange" -> "r_delete"
      [] pc = "r_delete" -> "r_hdel"
      [] pc = "r_hdel" -> "r_zrem"
      [] pc = "r_zrem" -> "r_top"
\* `tokens` is dropped when the loop's body ends
TokensAfter(pc, tokens) == IF ReaperAfter(pc) = "r_top" THEN {} ELSE tokens

ReaperZrange ==
    /\ program \in ReaperPrograms
    /\ reaper.pc = "r_zrange"
    /\ reaper' = [reaper EXCEPT !.tokens = ZRangeFirst(recentZ, EndIndex(reaper.size)),
                                 !.pc = ReaperAfter("r_zrange")]
    /\ UNCHANGED <<QUIT, LIMIT, sessStore, upd, full, updCalls, evicted, cartRace>>

\* conn.delete(*session_keys): 'viewed:<token>', and 'cart:<token>' in
\* clean_full_session
ReaperDelete ==
    /\ program \in ReaperPrograms
    /\ reaper.pc = "r_delete"
    /\ viewedTok' = [t \in DOMAIN viewedTok |-> IF t \in reaper.tokens THEN NoViews ELSE viewedTok[t]]
    /\ cart' = [t \in DOMAIN cart |-> IF full /\ t \in reaper.tokens THEN NoCart ELSE cart[t]]
    /\ reaper' = [reaper EXCEPT !.pc = ReaperAfter("r_delete"),
                                 !.tokens = TokensAfter("r_delete", @)]
    /\ UNCHANGED <<QUIT, LIMIT, login, recentZ, viewedAll, upd, full, updCalls, evicted, cartRace>>

\* conn.hdel('login:', *tokens)
ReaperHdel ==
    /\ program \in ReaperPrograms
    /\ reaper.pc = "r_hdel"
    /\ login' = [t \in DOMAIN login |-> IF t \in reaper.tokens THEN Nil ELSE login[t]]
    /\ reaper' = [reaper EXCEPT !.pc = ReaperAfter("r_hdel"),
                                 !.tokens = TokensAfter("r_hdel", @)]
    /\ UNCHANGED <<QUIT, LIMIT, recentZ, viewedTok, viewedAll, cart, upd, full,
                   updCalls, evicted, cartRace>>

\* conn.zrem('recent:', *tokens)
ReaperZrem ==
    /\ program \in ReaperPrograms
    /\ reaper.pc = "r_zrem"
    /\ recentZ' = [t \in DOMAIN recentZ |-> IF t \in reaper.tokens THEN Nil ELSE recentZ[t]]
    /\ evicted' = evicted \cup (reaper.tokens \cap Members(recentZ))
    /\ reaper' = [reaper EXCEPT !.pc = ReaperAfter("r_zrem"),
                                 !.tokens = TokensAfter("r_zrem", @)]
    /\ UNCHANGED <<QUIT, LIMIT, login, viewedTok, viewedAll, cart, upd, full, updCalls, cartRace>>

\* the test's main thread: `QUIT = True`
SetQuit ==
    /\ program = "sessions"
    /\ ~QUIT
    /\ QUIT' = TRUE
    /\ UNCHANGED <<LIMIT, sessStore, upd, reaper, full, updCalls, evicted, cartRace>>

SessDelays == {Sec(ReaperSleep)}

SessAdvance(d) ==
    /\ program \in ReaperPrograms
    /\ elapsed < MaxAdvance
    /\ clock' = clock + d
    /\ elapsed' = elapsed + 1
    /\ UNCHANGED <<program, watching, dirty, watchedAt, sessVars>>

SessStep ==
    \/ \E c \in Shoppers, t \in Tokens, u \in Accounts, i \in SessItems \cup {NoItem} :
          UpdTime(c, t, u, i)
    \/ \E c \in Shoppers : UpdHset(c)
    \/ \E c \in Shoppers : UpdZadd(c)
    \/ \E c \in Shoppers : UpdViewed(c)
    \/ \E c \in Shoppers : UpdTrim(c)
    \/ \E c \in Shoppers : UpdZincrby(c)
    \/ \E c \in Shoppers, t \in Tokens, i \in SessItems, n \in Counts : AddToCart(c, t, i, n)
    \/ ReaperCheckQuit
    \/ ReaperZcard
    \/ ReaperWake
    \/ ReaperZrange
    \/ ReaperDelete
    \/ ReaperHdel
    \/ ReaperZrem
    \/ SetQuit

NextSess ==
    \/ SessStep /\ UNCHANGED <<program, clock, elapsed, watching, dirty, watchedAt,
                               voteVars, logVars, rowVars, cacheVars>>
    \/ (\E d \in SessDelays : SessAdvance(d)) /\ UNCHANGED <<voteVars, logVars, rowVars, cacheVars>>

(***************************************************************************)
(* login_cookie.py: the row cache and its scheduler                        *)
(***************************************************************************)
Rows == {1}
\* the callers of schedule_row_cache
Callers == {"c1"}
\* the delays, in seconds, that the callers pass
RowDelays == {0 - 1, 0, 1}
MaxRowCalls == 3

\* A score of 'delay:' may be negative: an entry says whether the row is a
\* member, and its score.
NoDelay == [member |-> FALSE, score |-> 0]
Delay(d) == [member |-> TRUE, score |-> d]

RowIdle == [pc |-> "idle", row |-> Nil, delay |-> 0]
CacherTop == [pc |-> "k_top", row |-> Nil, due |-> Nil, now |-> Nil, delay |-> Nil]

InitRowStore ==
    /\ delayZ = [r \in Rows |-> NoDelay]
    /\ scheduleZ = [r \in Rows |-> Nil]
    /\ inventory = [r \in Rows |-> Nil]
    /\ rowCall = [c \in Callers |-> RowIdle]
    /\ cacher = CacherTop
    /\ rowCalls = 0
    /\ retirePending = {}
    /\ cycleFresh = FALSE
    /\ handled = {}
    /\ refreshDue = [r \in Rows |-> Nil]

\* the scripts that call schedule_row_cache and run cache_rows in a thread
RowPrograms == {"rows", "sched"}

\* ---- schedule_row_cache
\* line 279: conn.zadd('delay:', row_id, delay)
SchedDelay(c, r, d) ==
    /\ program \in RowPrograms
    /\ rowCall[c].pc = "idle"
    /\ rowCalls < MaxRowCalls
    /\ rowCalls' = rowCalls + 1
    /\ delayZ' = [delayZ EXCEPT ![r] = Delay(d)]
    /\ rowCall' = [rowCall EXCEPT ![c] = [pc |-> "s_schedule", row |-> r, delay |-> d]]
    /\ retirePending' = retirePending \ {r}
    /\ handled' = handled \ {r}
    /\ cycleFresh' = (cycleFresh /\ cacher.row # r)
    /\ refreshDue' = [refreshDue EXCEPT ![r] = Nil]
    /\ UNCHANGED <<scheduleZ, inventory, cacher>>

\* line 281: conn.zadd('schedule:', row_id, time.time())
SchedNow(c) ==
    /\ program \in RowPrograms
    /\ rowCall[c].pc = "s_schedule"
    /\ scheduleZ' = [scheduleZ EXCEPT ![rowCall[c].row] = clock]
    /\ rowCall' = [rowCall EXCEPT ![c] = RowIdle]
    /\ retirePending' = IF rowCall[c].delay <= 0
                         THEN retirePending \cup {rowCall[c].row} ELSE retirePending
    /\ refreshDue' = [refreshDue EXCEPT ![rowCall[c].row] = Nil]
    /\ UNCHANGED <<delayZ, inventory, cacher, rowCalls, cycleFresh, handled>>

\* ---- cache_rows
\* line 291: `while not QUIT`
CacheCheckQuit ==
    /\ program \in RowPrograms
    /\ cacher.pc = "k_top"
    /\ cacher' = [cacher EXCEPT !.pc = WhileNotQuit(QUIT, "k_peek")]
    /\ UNCHANGED <<rowStore, rowCall, rowCalls, retirePending, cycleFresh, handled>>
    /\ UNCHANGED refreshDue

\* line 294: zrange('schedule:', 0, 0, withscores=True)
CachePeek ==
    /\ program \in RowPrograms
    /\ cacher.pc = "k_peek"
    /\ LET first == ZRangeFirst(scheduleZ, 1) IN
        IF first = {}
        THEN /\ cacher' = [CacherTop EXCEPT !.pc = "k_now"]
             /\ cycleFresh' = FALSE
        ELSE LET r == CHOOSE x \in first : TRUE IN
             /\ cacher' = [CacherTop EXCEPT !.pc = "k_now", !.row = r, !.due = scheduleZ[r]]
             /\ cycleFresh' = (r \in retirePending)
    /\ UNCHANGED <<rowStore, rowCall, rowCalls, retirePending, handled>>
    /\ UNCHANGED refreshDue

\* lines 299-302: nothing is due: sleep 50 ms and start over
CacheNow ==
    /\ program \in RowPrograms
    /\ cacher.pc = "k_now"
    /\ cacher' = IF cacher.row = Nil \/ cacher.due > clock
                  THEN CacherTop
                  ELSE [cacher EXCEPT !.pc = "k_zscore", !.now = clock]
    /\ cycleFresh' = (cycleFresh /\ cacher'.pc = "k_zscore")
    /\ UNCHANGED <<rowStore, rowCall, rowCalls, retirePending, handled>>
    /\ UNCHANGED refreshDue

\* the cycle that found `r` due is over
Handled(r) == IF cycleFresh /\ r \in retirePending THEN handled \cup {r} ELSE handled

\* lines 306-308: delay = zscore('delay:', row_id); `if delay <= 0`.
\* zscore returns None for a row without a delay, and `None <= 0` raises
\* TypeError: the thread ends.
\* the delay that the cycle keeps in its local `delay`: the score just read
ZscoreOnce(score) == 1
Zscore(score) == score

CacheZscore ==
    /\ program \in RowPrograms
    /\ cacher.pc = "k_zscore"
    /\ LET d == delayZ[cacher.row] IN
        /\ cacher' = IF ~d.member THEN [cacher EXCEPT !.pc = "crashed"]
                      ELSE IF d.score <= 0 THEN [cacher EXCEPT !.pc = "k_zrem_delay"]
                      ELSE [cacher EXCEPT !.pc = "k_zadd", !.delay = Zscore(d.score)]
        /\ handled' = IF ~d.member THEN Handled(cacher.row) ELSE handled
    /\ UNCHANGED <<rowStore, rowCall, rowCalls, retirePending, cycleFresh>>
    /\ UNCHANGED refreshDue

\* line 309
CacheZremDelay ==
    /\ program \in RowPrograms
    /\ cacher.pc = "k_zrem_delay"
    /\ delayZ' = [delayZ EXCEPT ![cacher.row] = NoDelay]
    /\ cacher' = [cacher EXCEPT !.pc = "k_zrem_schedule"]
    /\ UNCHANGED <<scheduleZ, inventory, rowCall, rowCalls, retirePending, cycleFresh, handled>>
    /\ UNCHANGED refreshDue

\* line 310
CacheZremSchedule ==
    /\ program \in RowPrograms
    /\ cacher.pc = "k_zrem_schedule"
    /\ scheduleZ' = [scheduleZ EXCEPT ![cacher.row] = Nil]
    /\ cacher' = [cacher EXCEPT !.pc = "k_delete"]
    /\ UNCHANGED <<delayZ, inventory, rowCall, rowCalls, retirePending, cycleFresh, handled>>
    /\ UNCHANGED refreshDue

\* lines 311-312
CacheDelete ==
    /\ program \in RowPrograms
    /\ cacher.pc = "k_delete"
    /\ inventory' = [inventory EXCEPT ![cacher.row] = Nil]
    /\ handled' = Handled(cacher.row)
    /\ cacher' = CacherTop
    /\ cycleFresh' = FALSE
    /\ UNCHANGED <<delayZ, scheduleZ, rowCall, rowCalls, retirePending>>
    /\ UNCHANGED refreshDue

\* `now + delay` (line 317), delay being in seconds
DueAtNow(now, delay) == now
DueAt(now, delay) == now + Sec(delay)

\* line 317: zadd('schedule:', row_id, now + delay)
CacheZadd ==
    /\ program \in RowPrograms
    /\ cacher.pc = "k_zadd"
    /\ scheduleZ' = [scheduleZ EXCEPT ![cacher.row] = DueAt(cacher.now, cacher.delay)]
    /\ refreshDue' = [refreshDue EXCEPT ![cacher.row] = cacher.now + Sec(cacher.delay)]
    /\ cacher' = [cacher EXCEPT !.pc = "k_set"]
    /\ UNCHANGED <<delayZ, inventory, rowCall, rowCalls, retirePending, cycleFresh, handled>>

\* line 319: set('inventory:<row>', ...), 'cached' being time.time() (line 263)
CacheSet ==
    /\ program \in RowPrograms
    /\ cacher.pc = "k_set"
    /\ inventory' = [inventory EXCEPT ![cacher.row] = clock]
    /\ handled' = Handled(cacher.row)
    /\ cacher' = CacherTop
    /\ cycleFresh' = FALSE
    /\ UNCHANGED <<delayZ, scheduleZ, rowCall, rowCalls, retirePending>>
    /\ UNCHANGED refreshDue

\* the test's main thread: `QUIT = True`
RowSetQuit ==
    /\ program \in RowPrograms
    /\ ~QUIT
    /\ QUIT' = TRUE
    /\ UNCHANGED rowVars

RowTicks == {1, Sec(1)}

RowAdvance(d) ==
    /\ program \in RowPrograms
    /\ elapsed < MaxAdvance
    /\ clock' = clock + d
    /\ elapsed' = elapsed + 1
    /\ UNCHANGED <<program, watching, dirty, watchedAt, QUIT, rowVars, cacheVars>>

RowStep ==
    \/ \E c \in Callers, r \in Rows, d \in RowDelays : SchedDelay(c, r, d)
    \/ \E c \in Callers : SchedNow(c)
    \/ CacheCheckQuit
    \/ CachePeek
    \/ CacheNow
    \/ CacheZscore
    \/ CacheZremDelay
    \/ CacheZremSchedule
    \/ CacheDelete
    \/ CacheZadd
    \/ CacheSet

NextRows ==
    \/ RowStep /\ UNCHANGED <<program, clock, elapsed, watching, dirty, watchedAt,
                              voteVars, logVars, sessVars, cacheVars>>
    \/ RowSetQuit /\ UNCHANGED <<program, clock, elapsed, watching, dirty, watchedAt,
                                 voteVars, logVars, sessOnly, cacheVars>>
    \/ (\E d \in RowTicks : RowAdvance(d)) /\ UNCHANGED <<voteVars, logVars, sessOnly>>

(***************************************************************************)
(* login_cookie.py: the page cache                                         *)
(***************************************************************************)
\* Request URLs: 1 'https://www.jd.com/?item=1', 2 the same with a further
\* parameter, 3 'https://www.jd.com/' and 4 'https://www.jd.com/?item=1&_=5'.
Requests == {1, 2, 3, 4}
\* extract_item_id (lines 151-156)
ItemOf(r) == IF r = 3 THEN NoItem ELSE 1
\* is_dynamic (lines 167-169)
IsDynamic(r) == r = 4

\* The callbacks handed to cache_request: the two of the test, and one that
\* renders an empty page.
Callbacks == {"callback", "nul", "blank"}
\* '' as a page
Empty == 0
\* callback(request): the page it renders
Render(cb, r) == IF cb = "blank" THEN Empty
                 ELSE IF cb = "callback" THEN 10 + r ELSE 20 + r

\* str(hash(request)) (line 226) takes its values in a key space that is
\* smaller than the set of URLs; which URLs share a value depends on the
\* process (PYTHONHASHSEED).  Up to the names of the keys: the two URLs of
\* the item share their key or do not.
HashKeys == {1, 2}
Hashes == {h \in [Requests -> HashKeys] : h[1] = 1 /\ h[3] = 2 /\ h[4] = 2}

MaxReqCalls == 2

\* `rank < 10000` (line 216)
CACHE_RANKS == 10000
\* setex(page_key, content, 300) (line 243)
CACHE_SECONDS == 300

NoPage == [content |-> Nil, expires |-> 0]
ReqIdle == [pc |-> "idle", request |-> 1, callback |-> "callback", content |-> Nil,
            result |-> Nil, calls |-> 0]

InitPages(h) ==
    /\ pageStore = [k \in HashKeys |-> NoPage]
    /\ hashOf = h
    /\ req = [c \in Shoppers |-> ReqIdle]
    /\ reqCalls = 0

\* zrank('viewed:', item_id): the members with a lower score, which is more
\* views, or with the same score and a lower name
ViewedRank(i) == Cardinality({j \in Members(viewedAll) :
                    viewedAll[j] > viewedAll[i] \/ (viewedAll[j] = viewedAll[i] /\ j < i)})

\* can_cache (lines 208-216)
CanCache(r) ==
    /\ ItemOf(r) # NoItem
    /\ ~IsDynamic(r)
    /\ ItemOf(r) \in Members(viewedAll)
    /\ ViewedRank(ItemOf(r)) < CACHE_RANKS

\* GET: the value of a key that exists and has not expired, else None
Get(k) == IF pageStore[k].content # Nil /\ pageStore[k].expires > clock
          THEN pageStore[k].content ELSE Nil

\* `not content` (line 240): None and '' are both false
Not(content) == content = Nil \/ content = Empty

\* lines 231-232: the request cannot be cached: return callback(request)
ReqEnter(c, r, cb) ==
    /\ program = "cache"
    /\ req[c].pc = "idle"
    /\ reqCalls < MaxReqCalls
    /\ reqCalls' = reqCalls + 1
    /\ req' = [req EXCEPT ![c] =
            IF CanCache(r)
            THEN [ReqIdle EXCEPT !.pc = "q_get", !.request = r, !.callback = cb]
            ELSE [ReqIdle EXCEPT !.request = r, !.callback = cb,
                                 !.result = Render(cb, r), !.calls = 1]]
    /\ UNCHANGED <<pageStore, hashOf>>

\* lines 235-240: content = conn.get(page_key); `if not content`
ReqGet(c) ==
    /\ program = "cache"
    /\ req[c].pc = "q_get"
    /\ LET content == Get(hashOf[req[c].request]) IN
        req' = [req EXCEPT ![c] =
            IF Not(content) THEN [@ EXCEPT !.pc = "q_call", !.content = content]
            ELSE [@ EXCEPT !.pc = "idle", !.content = content, !.result = content]]
    /\ UNCHANGED <<pageStore, hashOf, reqCalls>>

\* line 241: content = callback(request)
ReqCall(c) ==
    /\ program = "cache"
    /\ req[c].pc = "q_call"
    /\ req' = [req EXCEPT ![c].pc = "q_setex",
                          ![c].content = Render(req[c].callback, req[c].request),
                          ![c].calls = @ + 1]
    /\ UNCHANGED <<pageStore, hashOf, reqCalls>>

\* lines 243-245: setex(page_key, content, 300); return content
ReqSetex(c) ==
    /\ program = "cache"
    /\ req[c].pc = "q_setex"
    /\ pageStore' = [pageStore EXCEPT ![hashOf[req[c].request]] =
            [content |-> req[c].content, expires |-> clock + Sec(CACHE_SECONDS)]]
    /\ req' = [req EXCEPT ![c].pc = "idle", ![c].result = req[c].content]
    /\ UNCHANGED <<hashOf, reqCalls>>

CacheDelays == {1, Sec(CACHE_SECONDS)}

CacheAdvance(d) ==
    /\ program = "cache"
    /\ elapsed < MaxAdvance
    /\ clock' = clock + d
    /\ elapsed' = elapsed + 1
    /\ UNCHANGED <<program, watching, dirty, watchedAt, sessVars, cacheVars>>

\* update_token with an item puts the item into 'viewed:'
ViewStep ==
    \/ \E c \in Shoppers, u \in Accounts, i \in SessItems : UpdTime(c, 1, u, i)
    \/ \E c \in Shoppers : UpdHset(c)
    \/ \E c \in Shoppers : UpdZadd(c)
    \/ \E c \in Shoppers : UpdViewed(c)
    \/ \E c \in Shoppers : UpdTrim(c)
    \/ \E c \in Shoppers : UpdZincrby(c)

ReqStep ==
    \E c \in Shoppers :
        \/ \E r \in Requests, cb \in Callbacks : ReqEnter(c, r, cb)
        \/ ReqGet(c)
        \/ ReqCall(c)
        \/ ReqSetex(c)

NextCache ==
    \/ ViewStep /\ UNCHANGED <<program, clock, elapsed, watching, dirty, watchedAt,
                               voteVars, logVars, rowVars, cacheVars>>
    \/ ReqStep /\ UNCHANGED <<program, clock, elapsed, watching, dirty, watchedAt,
                              voteVars, logVars, sessVars, rowVars>>
    \/ (\E d \in CacheDelays : CacheAdvance(d)) /\ UNCHANGED <<voteVars, logVars, rowVars>>

(***************************************************************************)
(* Specifications: one per script, and the two scripts that use            *)
(* WATCH / MULTI / EXEC together.                                          *)
(***************************************************************************)
InitClock ==
    /\ clock = 0
    /\ elapsed = 0

InitStores ==
    /\ InitClock
    /\ InitWatch
    /\ InitVoteStore
    /\ InitLogStore
    /\ InitSessStore
    /\ InitRowStore
    /\ InitPages([r \in Requests |-> 1])

InitVote == program = "vote" /\ InitStores
InitLog == program = "log" /\ InitStores

\* The tests lower the global LIMIT before they start the reaper thread, and
\* start clean_sessions or clean_full_session.
InitSess ==
    /\ program = "sessions"
    /\ InitClock
    /\ InitWatch
    /\ InitVoteStore
    /\ InitLogStore
    /\ InitRowStore
    /\ InitPages([r \in Requests |-> 1])
    /\ \E l \in Limits, f \in BOOLEAN :
          /\ QUIT = FALSE
          /\ LIMIT = l
          /\ login = [t \in Tokens |-> Nil]
          /\ recentZ = [t \in Tokens |-> Nil]
          /\ viewedTok = [t \in Tokens |-> NoViews]
          /\ viewedAll = [i \in Items |-> Nil]
          /\ cart = [t \in Tokens |-> NoCart]
          /\ upd = [c \in Shoppers |-> UpdIdle]
          /\ reaper = ReaperTop
          /\ full = f
          /\ updCalls = 0
          /\ evicted = {}
          /\ cartRace = FALSE

SpecVote == InitVote /\ [][NextVote]_vars
SpecLog == InitLog /\ [][NextLog]_vars
InitRows == program = "rows" /\ InitStores

SpecSess == InitSess /\ [][NextSess]_vars
SpecRows == InitRows /\ [][NextRows]_vars
SpecTxn == (InitVote \/ InitLog) /\ [][NextVote \/ NextLog]_vars

\* concurrent post_article calls by any users
PostStep ==
    \E c \in Clients :
        \/ \E u \in Users : PostIncr(c, u)
        \/ PostSadd(c)
        \/ PostExpire(c)
        \/ PostTime(c)
        \/ PostHmset(c)
        \/ PostZaddScore(c)
        \/ PostZaddTime(c)

NextPost ==
    \/ PostStep /\ UNCHANGED <<program, clock, elapsed, logVars, sessVars, rowVars, cacheVars>>
    \/ /\ \E d \in VoteDelays, flag \in BOOLEAN : VoteAdvance(d, flag)
       /\ UNCHANGED <<logVars, sessVars, rowVars, cacheVars>>

InitPost == program = "post" /\ InitStores

\* add_to_cart calls with any item and count
CartCounts == {0 - 1, 0, 1, 2}

NextCart ==
    /\ \E c \in Shoppers, t \in Tokens, i \in Items, n \in CartCounts : AddToCart(c, t, i, n)
    /\ UNCHANGED <<program, clock, elapsed, watching, dirty, watchedAt, voteVars, logVars,
                   rowVars, cacheVars>>

InitCart == program = "cart" /\ InitStores
SpecCart == InitCart /\ [][NextCart]_vars

\* clean_sessions over a store that holds up to BATCH + 2 sessions, with
\* update_token calls that touch the oldest session or log a new one in
ReapTokens == 1..(BATCH + 3)
ReapSizes == {0, 1, BATCH + 1, BATCH + 2}
ReapTouched == {1, BATCH + 3}
\* the score of the session logged in t-th: older sessions have lower scores
OlderScore(t) == t - (BATCH + 5)

InitReap ==
    /\ program = "reap"
    /\ InitClock
    /\ InitWatch
    /\ InitVoteStore
    /\ InitLogStore
    /\ InitRowStore
    /\ InitPages([r \in Requests |-> 1])
    /\ \E l \in Limits, n \in ReapSizes :
          /\ QUIT = FALSE
          /\ LIMIT = l
          /\ login = [t \in ReapTokens |-> IF t <= n THEN 7 ELSE Nil]
          /\ recentZ = [t \in ReapTokens |-> IF t <= n THEN OlderScore(t) ELSE Nil]
          /\ viewedTok = [t \in ReapTokens |-> NoViews]
          /\ viewedAll = [i \in Items |-> Nil]
          /\ cart = [t \in ReapTokens |-> NoCart]
          /\ upd = [c \in Shoppers |-> UpdIdle]
          /\ reaper = ReaperTop
          /\ full = FALSE
          /\ updCalls = 0
          /\ evicted = {}
          /\ cartRace = FALSE

ReapStep ==
    \/ \E c \in Shoppers, t \in ReapTouched, u \in Accounts : UpdTime(c, t, u, NoItem)
    \/ \E c \in Shoppers : UpdHset(c)
    \/ \E c \in Shoppers : UpdZadd(c)
    \/ ReaperCheckQuit
    \/ ReaperZcard
    \/ ReaperWake
    \/ ReaperZrange
    \/ ReaperDelete
    \/ ReaperHdel
    \/ ReaperZrem

NextReap ==
    \/ ReapStep /\ UNCHANGED <<program, clock, elapsed, watching, dirty, watchedAt,
                               voteVars, logVars, rowVars, cacheVars>>
    \/ (\E d \in SessDelays : SessAdvance(d)) /\ UNCHANGED <<voteVars, logVars, rowVars, cacheVars>>

SpecReap == InitReap /\ [][NextReap]_vars

\* clean_sessions or clean_full_session alone on a store of n sessions, each
\* with its login, its viewed items and its cart; the thread can be stopped
\* in the middle of a cycle and a new one started.
CrashSizes == {1, 2, 3, BATCH + 2}
SomeViews == [i \in Items |-> IF i = 1 THEN 1 ELSE Nil]
SomeCart == [i \in Items |-> IF i = 1 THEN 1 ELSE Nil]
SessionsOf(D) ==
    [login |-> [t \in D |-> 7],
     recentZ |-> [t \in D |-> OlderScore(t)],
     viewedTok |-> [t \in D |-> SomeViews],
     cart |-> [t \in D |-> SomeCart]]

InitCrash ==
    /\ program = "crash"
    /\ InitClock
    /\ InitWatch
    /\ InitVoteStore
    /\ InitLogStore
    /\ InitRowStore
    /\ InitPages([r \in Requests |-> 1])
    /\ \E l \in Limits, n \in CrashSizes, f \in BOOLEAN :
          /\ QUIT = FALSE
          /\ LIMIT = l
          /\ login = SessionsOf(1..n).login
          /\ recentZ = SessionsOf(1..n).recentZ
          /\ viewedTok = SessionsOf(1..n).viewedTok
          /\ viewedAll = [i \in Items |-> Nil]
          /\ cart = SessionsOf(1..n).cart
          /\ upd = [c \in Shoppers |-> UpdIdle]
          /\ reaper = ReaperTop
          /\ full = f
          /\ updCalls = 0
          /\ evicted = {}
          /\ cartRace = FALSE

\* the daemon thread ends between two commands of a cycle; a thread started
\* afterwards begins at the top of the loop with no local state
ReaperCrash ==
    /\ program = "crash"
    /\ reaper.pc \in {"r_zrange", "r_delete", "r_hdel", "r_zrem"}
    /\ reaper' = ReaperTop
    /\ UNCHANGED <<QUIT, LIMIT, sessStore, upd, full, updCalls, evicted, cartRace>>

CrashStep ==
    \/ ReaperCheckQuit
    \/ ReaperZcard
    \/ ReaperWake
    \/ ReaperZrange
    \/ ReaperDelete
    \/ ReaperHdel
    \/ ReaperZrem
    \/ ReaperCrash

NextCrash ==
    \/ CrashStep /\ UNCHANGED <<program, clock, elapsed, watching, dirty, watchedAt,
                                voteVars, logVars, rowVars, cacheVars>>
    \/ (\E d \in SessDelays : SessAdvance(d)) /\ UNCHANGED <<voteVars, logVars, rowVars, cacheVars>>

SpecCrash == InitCrash /\ [][NextCrash]_vars

\* schedule_row_cache and cache_rows over two rows and two positive delays
SchedRows == {1, 2}
SchedDelays == {0, 1, 2}

InitSched ==
    /\ program = "sched"
    /\ InitClock
    /\ InitWatch
    /\ InitVoteStore
    /\ InitLogStore
    /\ InitSessStore
    /\ InitPages([r \in Requests |-> 1])
    /\ delayZ = [r \in SchedRows |-> NoDelay]
    /\ scheduleZ = [r \in SchedRows |-> Nil]
    /\ inventory = [r \in SchedRows |-> Nil]
    /\ rowCall = [c \in Callers |-> RowIdle]
    /\ cacher = CacherTop
    /\ rowCalls = 0
    /\ retirePending = {}
    /\ cycleFresh = FALSE
    /\ handled = {}
    /\ refreshDue = [r \in SchedRows |-> Nil]

SchedStep ==
    \/ \E c \in Callers, r \in SchedRows, d \in SchedDelays : SchedDelay(c, r, d)
    \/ \E c \in Callers : SchedNow(c)
    \/ CacheCheckQuit
    \/ CachePeek
    \/ CacheNow
    \/ CacheZscore
    \/ CacheZremDelay
    \/ CacheZremSchedule
    \/ CacheDelete
    \/ CacheZadd
    \/ CacheSet

NextSched ==
    \/ SchedStep /\ UNCHANGED <<program, clock, elapsed, watching, dirty, watchedAt,
                                voteVars, logVars, sessVars, cacheVars>>
    \/ (\E d \in RowTicks : RowAdvance(d)) /\ UNCHANGED <<voteVars, logVars, sessOnly>>

SpecSched == InitSched /\ [][NextSched]_vars

\* the store that the loop, never stopped, leaves when it goes to sleep
RECURSIVE Uninterrupted(_, _, _)
Uninterrupted(st, limit, withCart) ==
    LET size == Cardinality(Members(st.recentZ)) IN
    IF size <= limit THEN st
    ELSE LET tokens == ZRangeFirst(st.recentZ, Min(size - limit, BATCH))
             Drop(f, none) == [t \in DOMAIN f |-> IF t \in tokens THEN none ELSE f[t]]
         IN Uninterrupted([login |-> Drop(st.login, Nil),
                           recentZ |-> Drop(st.recentZ, Nil),
                           viewedTok |-> Drop(st.viewedTok, NoViews),
                           cart |-> IF withCart THEN Drop(st.cart, NoCart) ELSE st.cart],
                          limit, withCart)

\* The recent list as earlier log_recent calls left it: entry i from the head
\* was logged i seconds before the run begins.
Older(n) == [i \in 1..n |-> <<0 - i, "m1">>]

InitRecent ==
    /\ program = "recent"
    /\ InitClock
    /\ InitWatch
    /\ InitVoteStore
    /\ InitLogRest
    /\ InitSessStore
    /\ InitRowStore
    /\ InitPages([r \in Requests |-> 1])
    /\ \E n \in {0, RECENT_KEEP - 1, RECENT_KEEP} : recent = Older(n)

\* log_recent calls of every client and the log_common calls of one
RecentStep ==
    \/ \E c \in Clients, m \in Messages : RecentEnter(c, m)
    \/ \E c \in Clients : RecentExec(c)
    \/ \E c \in RetryClients : LogStepOf(c)

NextRecent ==
    \/ RecentStep /\ UNCHANGED <<program, clock, elapsed, voteVars, sessVars, rowVars,
                                 cacheVars>>
    \/ (\E d \in LogDelays : LogAdvance(d)) /\ UNCHANGED <<voteVars, sessVars, rowVars,
                                                            cacheVars>>

SpecRecent == InitRecent /\ [][NextRecent]_vars

InitCache ==
    /\ program = "cache"
    /\ InitClock
    /\ InitWatch
    /\ InitVoteStore
    /\ InitLogStore
    /\ InitSessStore
    /\ InitRowStore
    /\ \E h \in Hashes : InitPages(h)

SpecCache == InitCache /\ [][NextCache]_vars
SpecPost == InitPost /\ [][NextPost]_vars

(***************************************************************************)
(* The two retry loops under unbounded contention and a clock that keeps   *)
(* running                                                                 *)
(***************************************************************************)
\* A client outside Clients commits a write to the key c WATCHes (a vote of
\* another user on the article, vote_site.py line 48; the first write or a
\* rollover of the start marker, log.py lines 84 and 93).  Of that commit
\* only what c can observe before its EXEC is kept: its WATCH is flagged.
Interfere(c) ==
    /\ program \in {"vote", "log"}
    /\ watching[c] # Unwatched
    /\ ~dirty[c]
    /\ dirty' = [dirty EXCEPT ![c] = TRUE]
    /\ UNCHANGED <<program, clock, elapsed, watching, watchedAt, voteVars, logVars,
                   sessVars, rowVars, cacheVars>>

\* the calls whose loop condition still holds at the present clock
VoteWaiting(c) == vote[c].pc \in {"v_watch", "v_ismember", "v_exec"} /\ clock < vote[c].expired
LogWaiting(c) == log[c].pc # "idle" /\ clock < log[c].end

\* the clock runs in steps of half the time a loop allows itself
VoteTickLen == Sec(ONE_WEEK_IN_SCORES) \div 2
LogTickLen == Sec(LOG_TIMEOUT) \div 2

\* Time passes while a call is in its loop; keys whose expiry time has come
\* are dropped, as in VoteAdvance.
VoteTick(flag) ==
    /\ program = "vote"
    /\ \E c \in RetryClients : VoteWaiting(c)
    /\ clock' = clock + VoteTickLen
    /\ LET gone(a) == votedTTL[a] # Nil /\ votedTTL[a] <= clock + VoteTickLen IN
        /\ voted' = [a \in Articles |-> IF gone(a) THEN {} ELSE voted[a]]
        /\ votedTTL' = [a \in Articles |-> IF gone(a) THEN Nil ELSE votedTTL[a]]
        /\ dirty' = [c \in Clients |->
                dirty[c] \/ (flag /\ \E a \in Articles : gone(a) /\ watching[c] = VotedKey(a))]
    /\ UNCHANGED <<program, elapsed, articleCtr, timeZ, scoreZ, votes, scoreId, watching,
                   vote, watchedAt, voteHistory, logVars, sessVars, rowVars, cacheVars>>

LogTick ==
    /\ program = "log"
    /\ \E c \in RetryClients : LogWaiting(c)
    /\ clock' = clock + LogTickLen
    /\ UNCHANGED <<program, elapsed, watching, dirty, watchedAt, voteVars, logVars,
                   sessVars, rowVars, cacheVars>>

\* a call in progress takes its next step
VoteRun(c) ==
    /\ vote[c].pc # "idle"
    /\ VoteStepOf(c)
    /\ UNCHANGED <<program, clock, elapsed, logVars, sessVars, rowVars, cacheVars>>

LogRun(c) ==
    /\ log[c].pc # "idle"
    /\ LogStepOf(c)
    /\ UNCHANGED <<program, clock, elapsed, voteVars, sessVars, rowVars, cacheVars>>

NextRetry ==
    \/ (\E c \in RetryClients : VoteStepOf(c)) /\ UNCHANGED <<program, clock, elapsed, logVars, sessVars, rowVars, cacheVars>>
    \/ (\E c \in RetryClients : LogStepOf(c)) /\ UNCHANGED <<program, clock, elapsed, voteVars, sessVars, rowVars, cacheVars>>
    \/ \E c \in RetryClients : Interfere(c)
    \/ \E flag \in BOOLEAN : VoteTick(flag)
    \/ LogTick

\* The thread of a call keeps running and the clock keeps running.
FairRetry ==
    /\ \A c \in RetryClients : WF_vars(VoteRun(c)) /\ WF_vars(LogRun(c))
    /\ WF_vars(\E flag \in BOOLEAN : VoteTick(flag))
    /\ WF_vars(LogTick)

SpecRetry == (InitVote \/ InitLog) /\ [][NextRetry]_vars /\ FairRetry

(***************************************************************************)
(* The background loops and the QUIT flag, with the loops' threads running *)
(***************************************************************************)
ReaperStep ==
    \/ ReaperCheckQuit
    \/ ReaperZcard
    \/ ReaperWake
    \/ ReaperZrange
    \/ ReaperDelete
    \/ ReaperHdel
    \/ ReaperZrem

CacherStep ==
    \/ CacheCheckQuit
    \/ CachePeek
    \/ CacheNow
    \/ CacheZscore
    \/ CacheZremDelay
    \/ CacheZremSchedule
    \/ CacheDelete
    \/ CacheZadd
    \/ CacheSet

\* update_token calls without an item (lines 35-41)
LoginStep ==
    \/ \E c \in Shoppers, t \in Tokens, u \in Accounts : UpdTime(c, t, u, NoItem)
    \/ \E c \in Shoppers : UpdHset(c)
    \/ \E c \in Shoppers : UpdZadd(c)

\* time.sleep(1) of a loop that sleeps while QUIT is set comes to its end
LastSleep ==
    /\ program = "sessions"
    /\ QUIT
    /\ reaper.pc = "r_sleep"
    /\ clock < reaper.wake
    /\ clock' = reaper.wake
    /\ UNCHANGED <<program, elapsed, watching, dirty, watchedAt, voteVars, logVars,
                   sessVars, rowVars, cacheVars>>

ReaperRun ==
    ReaperStep /\ UNCHANGED <<program, clock, elapsed, watching, dirty, watchedAt,
                              voteVars, logVars, rowVars, cacheVars>>

CacherRun ==
    CacherStep /\ UNCHANGED <<program, clock, elapsed, watching, dirty, watchedAt,
                              voteVars, logVars, sessVars, cacheVars>>

NextQuit ==
    \/ (LoginStep \/ SetQuit) /\ UNCHANGED <<program, clock, elapsed, watching, dirty,
                                             watchedAt, voteVars, logVars, rowVars, cacheVars>>
    \/ ReaperRun
    \/ (\E d \in SessDelays : SessAdvance(d)) /\ UNCHANGED <<voteVars, logVars, rowVars, cacheVars>>
    \/ LastSleep
    \/ NextRows

FairQuit == WF_vars(ReaperRun) /\ WF_vars(CacherRun) /\ WF_vars(LastSleep)

SpecQuit == (InitSess \/ InitRows) /\ [][NextQuit]_vars /\ FairQuit

(***************************************************************************)
(* Properties of vote_site.py                                              *)
(***************************************************************************)
VoteQuiet == \A c \in Clients : vote[c].pc = "idle"

WindowOpen(a) == timeZ[a] # Nil /\ clock < timeZ[a] + Sec(ONE_WEEK_IN_SCORES)

\* C2: after article_vote calls by distinct users (none of them the poster,
\* none calling twice) on an article whose voting window is open, once no
\* call is in progress the 'votes' counter is the number of members of
\* 'voted:<id>', which are the poster and the users whose vote committed.
C2_VotesEqualMembers ==
    \A a \in Articles :
        (WindowOpen(a) /\ VoteQuiet /\ Cardinality(hasVoted[a]) > 1 /\ ~repeated) =>
            /\ votes[a] = Cardinality(voted[a])
            /\ voted[a] = hasVoted[a]

\* C3: a call by a user who has voted on the article, or posted it, made
\* while voting is accepted, changes neither 'votes' nor the score: no
\* transaction of such a user commits (stated for the calls that run from
\* their clock reading to EXEC within one tick, with the window still open).
C3_SecondVoteNoEffect ==
    [][\A c \in Clients :
          (/\ VoteCommit(c)
           /\ vote[c].user \in hasVoted[vote[c].article]
           /\ vote[c].now = clock
           /\ WindowOpen(vote[c].article)) =>
              (votes' = votes /\ scoreZ' = scoreZ /\ scoreId' = scoreId)]_vars

\* C4: an article_vote call that reads the clock at or after publish time
\* plus ONE_WEEK_IN_SCORES returns at once and leaves votes, score and
\* membership set as they were.
C4_ClosedWindowNoOp ==
    [][\A c \in Clients, u \in Users, a \in Articles :
          (VoteEnter(c, u, a) /\ clock >= timeZ[a] + Sec(ONE_WEEK_IN_SCORES)) =>
              (vote'[c].pc = "idle" /\ UNCHANGED voteStore)]_vars

C4_Witness ==
    \E c \in Clients, a \in Articles :
        /\ outcome[c] = "closed"
        /\ timeZ[a] # Nil
        /\ clock >= timeZ[a] + Sec(ONE_WEEK_IN_SCORES)
        /\ votes[a] = 1

\* C5: a committed first vote raises the article's score in 'score:' by
\* VOTE_SCORE, its 'votes' counter by 1, and adds the user to 'voted:<id>'.
C5_FirstVoteEffect ==
    [][\A c \in Clients :
          (VoteCommit(c) /\ vote[c].user \notin hasVoted[vote[c].article]) =>
              LET a == vote[c].article IN
                  /\ scoreZ'[a] = scoreZ[a] + Sec(VOTE_SCORE)
                  /\ votes'[a] = votes[a] + 1
                  /\ vote[c].user \in voted'[a]]_vars

(***************************************************************************)
(* Properties of log.py and of the WATCH / MULTI / EXEC protocol           *)
(***************************************************************************)
\* C6: a transaction of article_vote or log_common commits only if no
\* client wrote the watched key since the call's WATCH; an EXEC attempted
\* after such a write applies none of the queued writes and sends the call
\* back to the top of its loop, where it watches and reads again.
C6_CommitOnlyUnmodified ==
    [][\A c \in Clients :
          /\ (vote[c].pc = "v_exec" /\ vote'[c] # vote[c]) =>
                /\ voteStore' # voteStore => modCount[vote[c].article] = watchedAt[c]
                /\ modCount[vote[c].article] # watchedAt[c] =>
                      (UNCHANGED voteStore /\ vote'[c].pc \in {"v_watch", "idle"})
          /\ (log[c].pc = "l_exec" /\ log'[c] # log[c]) =>
                /\ logStore' # logStore => logMod = watchedAt[c]
                /\ logMod # watchedAt[c] =>
                      (UNCHANGED logStore /\ log'[c].pc = "l_loop")]_vars

C6_Witness ==
    \E c, d \in Clients :
        /\ vote[c].pc = "v_watch"
        /\ outcome[c] = "retrying"
        /\ outcome[d] = "applied"
        /\ vote[c].user \notin voted[vote[c].article]

\* C7: across hour changes a rollover into an hour happens at most once;
\* the current bucket holds exactly the increments of calls that computed
\* the hour of the start marker, and ':last' holds exactly those of the
\* hour recorded under ':pstart', which is an earlier hour.
C7_RolloverOnce ==
    /\ \A h \in Hours : rollCount[h] <= 1
    /\ logStart # Nil => logCounts = hourLog[logStart]
    /\ logPstart # Nil => (logPstart < logStart /\ logLast = hourLog[logPstart])

C7_Witness ==
    \E c \in Clients :
        /\ log[c].pc = "l_loop"
        /\ logOutcome[c] = "retrying"
        /\ RollsOver(log[c])
        /\ rollCount[log[c].hour_start] = 1
        /\ logStart = log[c].hour_start
        /\ logLast # NoCounts

\* C8: with no rollover in between, n committed log_common calls with one
\* message leave its count in the current bucket at n, whatever other
\* messages were logged.
C8_CountIsCommits == \A m \in Messages : logCounts[m] = incSince[m]

C8_Witness ==
    \E m, o \in Messages : m # o /\ logCounts[m] = 2 /\ logCounts[o] = 1 /\ incSince[m] = 2

\* C9: a committed call that finds the start marker in an earlier hour
\* leaves ':last' with the counts of that hour, ':pstart' with its marker,
\* the start marker at the new hour, and the current bucket with the
\* call's own increment only.
C9_RolloverArchives ==
    [][\A c \in Clients :
          (LogCommit(c) /\ logStart # Nil /\ logStart < log[c].hour_start) =>
              /\ logLast' = logCounts
              /\ logPstart' = logStart
              /\ logStart' = log[c].hour_start
              /\ logCounts' = [m \in Messages |-> IF m = log[c].message THEN 1 ELSE 0]]_vars

C9_Witness ==
    \E m \in Messages :
        /\ logPstart = 0
        /\ logStart = 1
        /\ logLast[m] = 1
        /\ logCounts[m] = 1
        /\ hourLog[0][m] = 1

\* C1: once the reaper is quiescent (it sleeps on a size it found within
\* LIMIT, and that size is still current) and no update_token or add_to_cart
\* call is running, 'recent:' holds at most LIMIT tokens and a token the
\* reaper evicted has no 'login:' entry and no 'viewed:<token>' set, nor a
\* 'cart:<token>' hash when the reaper is clean_full_session (and no
\* add_to_cart call raced with the eviction: the claim's writers are
\* update_token calls).
ReaperQuiescent ==
    /\ reaper.pc = "r_sleep"
    /\ reaper.size = Cardinality(Members(recentZ))
    /\ \A c \in Shoppers : upd[c].pc = "idle"

C1_EvictedLeaveNothing ==
    (program = "sessions" /\ ReaperQuiescent) =>
        /\ Cardinality(Members(recentZ)) <= LIMIT
        /\ \A t \in evicted :
              /\ login[t] = Nil
              /\ Members(viewedTok[t]) = {}
              /\ (full /\ ~cartRace) => Members(cart[t]) = {}

\* C10: after schedule_row_cache(row, delay <= 0) has returned, and with no
\* later call for the row, the scheduler cycle that finds the row due leaves
\* it out of 'schedule:' and 'delay:' and without an 'inventory:<row>' copy,
\* also when the call ran while a cycle was in progress.
C10_RetiredRowRemoved ==
    \A r \in handled :
        /\ scheduleZ[r] = Nil
        /\ ~delayZ[r].member
        /\ inventory[r] = Nil

(***************************************************************************)
(* Properties of the row cache, the deadlines and the background loops    *)
(***************************************************************************)
\* C11: a refresh of a row in a cycle that read the clock at t and the delay
\* d > 0 sets the row's due time to t + d; with no schedule_row_cache call
\* for the row since its last refresh, the next refresh is in a cycle whose
\* clock reading is at or after that due time; a cycle that finds the row
\* due goes on to handle it; and no write to 'schedule:' gives the row a due
\* time earlier than the time its cached copy was written.
C11_RefreshSchedule ==
    [][/\ CacheZadd =>
            LET r == cacher.row IN
                /\ scheduleZ'[r] = cacher.now + Sec(cacher.delay)
                /\ refreshDue[r] # Nil => cacher.now >= refreshDue[r]
       /\ (CacheNow /\ cacher.row # Nil /\ cacher.due <= clock) => cacher'.pc = "k_zscore"
       /\ \A r \in Rows :
            (scheduleZ'[r] # scheduleZ[r] /\ scheduleZ'[r] # Nil /\ inventory[r] # Nil) =>
                scheduleZ'[r] >= inventory[r]]_vars

C11_Witness ==
    /\ rowCalls = 1
    /\ cacher.pc = "k_set"
    /\ inventory[cacher.row] # Nil
    /\ scheduleZ[cacher.row] = cacher.now + Sec(cacher.delay)
    /\ cacher.now >= inventory[cacher.row] + Sec(cacher.delay)

\* how a log_common call can end without a commit: the deadline passed after
\* a conflict ("gave up") or before the first attempt ("expired")
LogStopped == {"gave up", "expired"}

\* C12: a log_common call whose commit attempts all conflict until the
\* deadline gives up with none of its writes applied: a conflicting attempt
\* and the give-up leave the bucket's counts, the start marker, the archived
\* keys and the recent list as they were, the steps before EXEC write nothing,
\* and only a successful EXEC, which ends the call, writes.
C12_GiveUpAppliesNothing ==
    [][\A c \in Clients :
        /\ LogConflict(c) => UNCHANGED logStore
        /\ (log[c].pc = "l_loop" /\ clock >= log[c].end /\ log'[c] # log[c]) =>
                /\ UNCHANGED logStore
                /\ log'[c].pc = "idle"
                /\ logOutcome'[c] \in LogStopped
        /\ (log[c].pc \in {"l_loop", "l_watch", "l_hour", "l_get"} /\ log'[c] # log[c]) =>
                UNCHANGED logStore
        /\ LogCommit(c) => (log'[c].pc = "idle" /\ logOutcome'[c] \notin LogStopped)]_vars

C12_Witness ==
    \E c \in Clients :
        /\ log[c].pc = "idle"
        /\ logOutcome[c] = "gave up"
        /\ logCounts # NoCounts
        /\ clock >= Sec(LOG_TIMEOUT)

\* What the caller of log_common receives, by the way the call ended: the bare
\* `return` of line 102 and the end of the function after the loop both give
\* None; a failed RENAME surfaces from execute() as an exception.
\* how an article_vote call can end without a commit and without finding the
\* user among the voters: the window was over at the first reading of the
\* clock ("closed") or at a reading after a conflict ("gave up")
VoteStopped == {"closed", "gave up"}

LogReturns(o) == IF o = "raised" THEN "ResponseError" ELSE "None"
\* article_vote: the bare `return` of line 56 and the end of the function
\* after `while now < expired` both give None.
VoteReturns(o) == "None"

\* C13: a call that stopped because its deadline passed hands its caller
\* something different from what a successfully applied call hands back, and
\* it raises nothing.
C13_StoppedIsDistinct ==
    \A c, d \in Clients :
        /\ (logOutcome[c] \in LogStopped /\ logOutcome[d] = "applied") =>
                /\ LogReturns(logOutcome[c]) = "None"
                /\ LogReturns(logOutcome[c]) # LogReturns(logOutcome[d])
        /\ (outcome[c] \in VoteStopped /\ outcome[d] = "applied") =>
                /\ VoteReturns(outcome[c]) = "None"
                /\ VoteReturns(outcome[c]) # VoteReturns(outcome[d])

\* C14 as stated, for article_vote: every attempt starts within a short
\* budget of the start of the call, so a retry starts less than half a voting
\* window after the clock reading of the attempt before it.
C14_ShortBudget ==
    [][\A c \in RetryClients :
            (VoteConflict(c) /\ vote'[c].pc = "v_watch") =>
                clock - vote[c].now < Sec(ONE_WEEK_IN_SCORES) \div 2]_vars

\* C14: with the thread of a call and the clock running, every article_vote
\* and log_common call ends, however often other clients' commits make its
\* EXEC fail; after a failed EXEC the loop condition is evaluated in the same
\* instant; and an attempt starts only while the clock is before the deadline:
\* start + timeout for log_common, publish time + ONE_WEEK_IN_SCORES for
\* article_vote.
C14_CallsEnd ==
    /\ \A c \in RetryClients : (vote[c].pc # "idle") ~> (vote[c].pc = "idle")
    /\ \A c \in RetryClients : (log[c].pc # "idle") ~> (log[c].pc = "idle")
    /\ [][\A c \in RetryClients :
            /\ (vote[c].pc # "v_watch" /\ vote'[c].pc = "v_watch") =>
                    (clock' = clock /\ clock < vote'[c].posted + Sec(ONE_WEEK_IN_SCORES))
            /\ (log[c].pc # "l_watch" /\ log'[c].pc = "l_watch") =>
                    (clock' = clock /\ clock < log'[c].end)
            /\ VoteConflict(c) => (clock' = clock /\ vote'[c].pc \in {"v_watch", "idle"})
            /\ LogConflict(c) => (clock' = clock /\ log'[c].pc = "l_loop")]_vars

C14_Witness ==
    \E c \in RetryClients :
        /\ outcome[c] = "gave up"
        /\ vote[c].pc = "idle"
        /\ clock >= VoteTickLen + VoteTickLen

\* the loop has left its function: `while not QUIT` was false, or (cache_rows)
\* an exception ended the thread
ReaperExited == reaper.pc = "stopped"
CacherExited == cacher.pc \in {"stopped", "crashed"}

\* C15: once QUIT is set, a running clean_sessions, clean_full_session or
\* cache_rows loop comes to its end; the loop test that follows the cycle or
\* the sleep it is in leaves the loop instead of starting a cycle; and a loop
\* that has left never moves again and writes nothing to the store.
C15_QuitStopsLoops ==
    /\ (program = "sessions" /\ QUIT) ~> ReaperExited
    /\ (program = "rows" /\ QUIT) ~> CacherExited
    /\ [][/\ (QUIT /\ reaper.pc = "r_top" /\ reaper' # reaper) => reaper'.pc = "stopped"
          /\ (QUIT /\ reaper' # reaper) => reaper'.pc # "r_zcard"
          /\ (QUIT /\ cacher.pc = "k_top" /\ cacher' # cacher) => cacher'.pc = "stopped"
          /\ (QUIT /\ cacher' # cacher) => cacher'.pc # "k_peek"
          /\ ReaperExited => (reaper' = reaper /\ (upd' = upd => UNCHANGED sessStore))
          /\ CacherExited => (cacher' = cacher /\ (rowCall' = rowCall => UNCHANGED rowStore))
          /\ QUIT => QUIT']_vars

C15_Witness ==
    /\ program = "sessions"
    /\ QUIT
    /\ ReaperExited
    /\ evicted # {}
    /\ clock > 0

\* the ids handed to post_article calls that are in progress
PostingIds == {vote[c].article : c \in {d \in Clients : vote[d].pc # "idle"}}

PageLive(c) ==
    LET page == pageStore[hashOf[req[c].request]] IN
        page.content # Nil /\ page.expires > clock

\* C17: a cache_request call for a cacheable request that finds an entry
\* under its page key returns that entry's content and invokes no callback;
\* one that finds none invokes the callback once and stores the result for
\* 300 seconds; a call for a request that is not cacheable returns
\* callback(request) and leaves the cache as it is.
C17_CacheRequest ==
    [][\A c \in Shoppers :
        /\ (ReqGet(c) /\ PageLive(c)) =>
                /\ req'[c].pc = "idle"
                /\ req'[c].calls = 0
                /\ req'[c].result = pageStore[hashOf[req[c].request]].content
        /\ (ReqGet(c) /\ ~PageLive(c)) => req'[c].pc = "q_call"
        /\ ReqSetex(c) =>
                /\ req'[c].calls = 1
                /\ req'[c].result = Render(req[c].callback, req[c].request)
                /\ pageStore'[hashOf[req[c].request]] =
                        [content |-> req'[c].result, expires |-> clock + Sec(CACHE_SECONDS)]
        /\ \A r \in Requests, cb \in Callbacks :
                (ReqEnter(c, r, cb) /\ ~CanCache(r)) =>
                    /\ req'[c].pc = "idle"
                    /\ req'[c].result = Render(cb, r)
                    /\ pageStore' = pageStore]_vars

\* C18: a log_recent call, and a log_common call that commits, leaves the
\* recent list with at most RECENT_KEEP entries and the entry just logged at
\* its head; the entries behind it are the ones the list held, in the order
\* they had, so the list runs from the latest push to the earliest; and an
\* entry is dropped only from a list that was full, and it is the last one,
\* the earliest push.
C18_RecentCapped ==
    [][\A c \in Clients :
        (RecentExec(c) \/ LogCommit(c)) =>
            LET old == Len(recent)
                new == Len(recent')
                stamp == IF log[c].pc = "n_exec" THEN log[c].stamp ELSE Asctime(clock) IN
                /\ new <= RECENT_KEEP
                /\ new = Min(old + 1, RECENT_KEEP)
                /\ recent'[1] = <<stamp, log[c].message>>
                /\ \A i \in 1..(new - 1) : recent'[i + 1] = recent[i]]_vars

C18_Witness ==
    /\ program = "recent"
    /\ logCalls = 2
    /\ Len(recent) = RECENT_KEEP
    /\ recent[1][1] >= 0
    /\ recent[2][1] >= 0
    /\ recent[RECENT_KEEP] = <<2 - RECENT_KEEP, "m1">>
    /\ logCounts # NoCounts

\* C19: add_to_cart(session, item, count) leaves the item in 'cart:<session>'
\* with quantity count when count > 0 and absent when count <= 0, and leaves
\* every other item of that cart and every other cart as it was.
C19_AddToCart ==
    [][\A c \in Shoppers, t \in Tokens, i \in Items, n \in CartCounts :
        AddToCart(c, t, i, n) =>
            /\ n > 0 => cart'[t][i] = n
            /\ n <= 0 => cart'[t][i] = Nil
            /\ \A t2 \in Tokens, i2 \in Items :
                  (t2 # t \/ i2 # i) => cart'[t2][i2] = cart[t2][i2]]_vars

C19_Witness ==
    /\ program = "cart"
    /\ updCalls = 3
    /\ \E t \in Tokens, i \in Items :
          /\ cart[t][i] = 2
          /\ \A i2 \in Items \ {i} : cart[t][i2] = Nil
          /\ \A t2 \in Tokens \ {t} : cart[t2] # NoCart

\* the sessions that a step takes out of 'recent:', 'login:' and 'viewed:<token>'
ZremOf(z, z2) == Members(z) \ Members(z2)
ViewsDropped == {t \in DOMAIN viewedTok : viewedTok[t] # NoViews /\ viewedTok'[t] = NoViews}
InCycle == {"r_zrange", "r_delete", "r_hdel", "r_zrem"}
\* S holds n of z's members and none of the others scores lower than one of S
LowestScored(S, z, n) ==
    /\ S \subseteq Members(z)
    /\ Cardinality(S) = n
    /\ \A t \in S, u \in Members(z) \ S : z[t] <= z[u]

\* C20: a reaper cycle that reads size = zcard('recent:') <= LIMIT deletes
\* nothing; a cycle that reads a larger size fetches the min(size - LIMIT, 100)
\* lowest-scored tokens of 'recent:' and evicts exactly these, so the single
\* reaper never brings the cardinality of 'recent:' below LIMIT.
C20_ReaperEvicts ==
    [][/\ (reaper.pc = "r_zcard" /\ reaper' # reaper) =>
              /\ reaper'.size = Cardinality(Members(recentZ))
              /\ sessStore' = sessStore
              /\ reaper'.pc = (IF reaper'.size <= LIMIT THEN "r_sleep" ELSE "r_zrange")
       /\ (reaper.pc = "r_sleep" /\ reaper' # reaper) =>
              /\ reaper.size <= LIMIT
              /\ sessStore' = sessStore
              /\ reaper'.pc = "r_top"
       /\ (reaper.pc = "r_zrange" /\ reaper' # reaper) =>
              /\ reaper.size > LIMIT
              /\ LowestScored(reaper'.tokens, recentZ,
                              IF reaper.size - LIMIT < 100 THEN reaper.size - LIMIT ELSE 100)
       /\ (reaper.pc \in InCycle /\ reaper' # reaper) =>
              /\ ZremOf(login, login') \subseteq reaper'.tokens \cup reaper.tokens
              /\ ViewsDropped \subseteq reaper'.tokens \cup reaper.tokens
       /\ (reaper.pc = "r_zrem" /\ reaper' # reaper) =>
              /\ ZremOf(recentZ, recentZ') = reaper.tokens
              /\ Cardinality(reaper.tokens) =
                     (IF reaper.size - LIMIT < 100 THEN reaper.size - LIMIT ELSE 100)
              /\ reaper'.pc = "r_top"
       /\ ZremOf(recentZ, recentZ') # {} =>
              /\ reaper.pc = "r_zrem"
              /\ Cardinality(Members(recentZ')) >= LIMIT]_vars

\* a cycle that read more than LIMIT + 100 sessions has evicted 100 of them
C20_Witness ==
    /\ program = "reap"
    /\ reaper.pc = "r_top"
    /\ reaper.size = LIMIT + 101
    /\ Cardinality(evicted) = 100
    /\ Cardinality(Members(recentZ)) >= LIMIT + 1

\* C21: with the reaper as the only writer, and its cycles stopped at any
\* point, a session whose login, viewed items or (for clean_full_session)
\* cart were deleted and which is no longer in 'recent:' has lost all of
\* them, so no half-deleted session is out of the reaper's reach; and when a
\* restarted reaper goes to sleep the store is the one an uninterrupted run
\* leaves.
C21_DeleteBeforeZrem ==
    /\ \A t \in DOMAIN login :
          t \notin Members(recentZ) =>
              /\ login[t] = Nil
              /\ viewedTok[t] = NoViews
              /\ full => cart[t] = NoCart
    /\ reaper.pc \in {"r_delete", "r_hdel", "r_zrem"} =>
          reaper.tokens \subseteq Members(recentZ)
    /\ reaper.pc = "r_sleep" =>
          [login |-> login, recentZ |-> recentZ, viewedTok |-> viewedTok, cart |-> cart]
              = Uninterrupted(SessionsOf(DOMAIN login), LIMIT, full)

\* a new thread has fetched a session that an interrupted cycle left without
\* its login but still in 'recent:'
C21_Witness ==
    /\ program = "crash"
    /\ reaper.pc = "r_delete"
    /\ \E t \in reaper.tokens :
          /\ login[t] = Nil
          /\ viewedTok[t] = NoViews
          /\ t \in Members(recentZ)

\* the commands of a cache_rows cycle that follow the check of the due time
Processing == {"k_zscore", "k_zrem_delay", "k_zrem_schedule", "k_delete", "k_zadd", "k_set"}
\* a step leaves the records of every row but r as they are
OnlyRow(r) ==
    \A x \in DOMAIN scheduleZ \ {r} :
        /\ scheduleZ'[x] = scheduleZ[x]
        /\ delayZ'[x] = delayZ[x]
        /\ inventory'[x] = inventory[x]

\* C22: a cache_rows cycle peeks a row of minimum due time in 'schedule:',
\* goes on only when that due time is not after `now`, then writes to the
\* records of that one row only; a cycle that finds 'schedule:' empty or its
\* earliest due time after `now` changes nothing in 'schedule:', 'delay:' or
\* 'inventory:*'.
C22_OneDueRow ==
    [][cacher' # cacher =>
        /\ cacher.pc = "k_peek" =>
              /\ rowStore' = rowStore
              /\ cacher'.pc = "k_now"
              /\ IF Members(scheduleZ) = {} THEN cacher'.row = Nil
                 ELSE /\ cacher'.row \in Members(scheduleZ)
                      /\ cacher'.due = scheduleZ[cacher'.row]
                      /\ \A x \in Members(scheduleZ) : cacher'.due <= scheduleZ[x]
        /\ cacher.pc = "k_now" =>
              /\ rowStore' = rowStore
              /\ IF cacher.row = Nil \/ cacher.due > clock
                 THEN cacher' = CacherTop
                 ELSE /\ cacher'.pc = "k_zscore"
                      /\ cacher'.row = cacher.row
                      /\ cacher'.now = clock
        /\ cacher.pc \in Processing =>
              /\ cacher.row # Nil
              /\ cacher.due <= cacher.now
              /\ OnlyRow(cacher.row)
              /\ cacher'.pc \in Processing => cacher'.row = cacher.row]_vars

\* the scheduler has refreshed the earlier of two scheduled rows and left the
\* other, which is due too, for a later cycle
C22_Witness ==
    /\ program = "sched"
    /\ cacher.pc = "k_set"
    /\ \E x \in Members(scheduleZ) \ {cacher.row} :
          /\ cacher.due <= scheduleZ[x]
          /\ scheduleZ[x] <= cacher.now
          /\ inventory[x] = Nil

\* C23: every cycle of the scheduler that reschedules a row reads the row's
\* delay anew and reschedules with the delay it read in that same cycle, and
\* a cycle begins with no delay kept from an earlier one; so a delay changed
\* between the read and the reschedule is outdated for that one reschedule
\* only.
C23_StaleOnce ==
    [][/\ cacher.pc \in {"k_top", "k_peek", "k_now", "k_zscore"} => cacher.delay = Nil
       /\ (cacher.pc = "k_zscore" /\ cacher' # cacher /\ cacher'.pc = "k_zadd") =>
              /\ delayZ[cacher.row].member
              /\ cacher'.delay = delayZ[cacher.row].score
       /\ (cacher.pc = "k_zadd" /\ cacher' # cacher) =>
              /\ scheduleZ'[cacher.row] = cacher.now + cacher.delay * TicksPerSecond
              /\ cacher'.pc = "k_set"
       /\ (cacher.pc = "k_set" /\ cacher' # cacher) => cacher'.delay = Nil]_vars

\* the scheduler processes, with the new delay of 2 s, a row whose last
\* reschedule used 1 s although the delay was 2 s by then
C23_Witness ==
    /\ program = "sched"
    /\ cacher.pc = "k_zadd"
    /\ cacher.delay = 2
    /\ delayZ[cacher.row] = Delay(2)
    /\ \A c \in Callers : rowCall[c].pc = "idle"
    /\ refreshDue[cacher.row] = cacher.due
    /\ inventory[cacher.row] # Nil
    /\ cacher.due = inventory[cacher.row] + Sec(1)

\* no update_token call is running and the reaper is not inside an eviction
\* cycle
SessionsAtRest ==
    /\ \A c \in Shoppers : upd[c].pc = "idle"
    /\ reaper.pc \in {"r_top", "r_zcard", "r_sleep", "stopped"}

\* C24: whenever no update_token call and no eviction cycle is in progress,
\* every token with a 'login:' entry or a 'viewed:<token>' record is in
\* 'recent:' and every token in 'recent:' has a 'login:' entry.
C24_NoOrphanSession ==
    SessionsAtRest =>
        \A t \in DOMAIN login :
            /\ (login[t] # Nil \/ Members(viewedTok[t]) # {}) => t \in Members(recentZ)
            /\ t \in Members(recentZ) => login[t] # Nil

\* C25: every row that the scheduler finds due in 'schedule:' has a score in
\* 'delay:' when the scheduler looks it up: the scheduler never gets None
\* from zscore('delay:', row_id), on which `delay <= 0` raises and the loop
\* ends.
C25_DelayIsThere == cacher.pc # "crashed"

\* C26: in every state in which an article is in 'time:' and its voting
\* window is open, its 'votes' counter is the number of members of
\* 'voted:<id>', whatever the interleaving of post_article and article_vote
\* calls and with the expiry of 'voted:<id>' applied.
C26_VotesMatchVoters ==
    \A a \in Articles :
        WindowOpen(a) => votes[a] = Cardinality(voted[a])

\* C27: when a call schedule_row_cache(row, d) with d > 0 returns, the row is
\* in 'schedule:' and has its delay d in 'delay:' (there being no other
\* caller), from where a running scheduler refreshes it; also when the call
\* ran while the scheduler was retiring the row for an earlier delay <= 0.
C27_ScheduledRowStays ==
    [][\A c \in Callers :
          (SchedNow(c) /\ rowCall[c].delay > 0) =>
              /\ scheduleZ'[rowCall[c].row] # Nil
              /\ delayZ'[rowCall[c].row] = Delay(rowCall[c].delay)]_vars
=============================================================================
